---------------------------- MODULE Spec2Model ----------------------------
(***************************************************************************)
(* A model of apply.py, the Indeed "Easy Apply" automation script.         *)
(*                                                                         *)
(* Strings are modelled as sequences of one-character strings, so that     *)
(* lower-casing, stripping, substring tests, integer parsing and the       *)
(* removal of characters are computed the way the Python code computes     *)
(* them.  The browser (Selenium) is the environment: every answer it       *)
(* gives to a query of the code is an input of the model.                  *)
(*                                                                         *)
(* The module holds one specification per component:                       *)
(*   SpecConfig    the start of main: load_config, setup_driver, return    *)
(*   SpecClick     SafeElementHandler.safe_click                           *)
(*   SpecDetect    detect_page_type                                        *)
(*   SpecRate      RateLimiter.wait_if_needed                              *)
(*   SpecWorkflow  process_application_workflow                            *)
(*   SpecMain      main, from its first line to its return                 *)
(***************************************************************************)
EXTENDS Integers, Sequences, FiniteSets, TLC

VARIABLES
    \* --- main and load_config
    env,              \* the environment variables read by load_config
    config,           \* the BotConfig load_config returned, or NoConfig
    startup_error,    \* the exception load_config / setup_driver raised
    pc,               \* the position of main
    driver,           \* main's local name `driver`: unbound, open or quit
    browsers,         \* Chrome processes launched and not quit
    launches,         \* number of times webdriver.Chrome(...) was called
    commands,         \* TRUE once any command was sent to a browser
    ret,              \* the value main is about to return (-1: none yet)
    exit_code,        \* what main returned (-1: it has not returned)
    browser,          \* the windows of the browser and the one in focus
    \* --- SafeElementHandler.safe_click
    click_pc,         \* idle, loop (inside the for loop) or done
    click_element,    \* the argument: "none" before the call, "null", "element"
    click_i,          \* the loop index i, 0-based as in the code
    click_log,        \* what each iteration of the loop did
    click_result,     \* "none" before the return, then "true" or "false"
    \* --- SafeElementHandler.safe_find_element
    find_pc,          \* idle, loop (inside the for loop) or done
    find_timeout,     \* the argument `timeout`, in seconds
    find_attempt,     \* the loop variable `attempt`, 0-based as in the code
    find_log,         \* what each WebDriverWait(...).until(...) did
    find_waited,      \* seconds spent waiting and sleeping in the call
    find_result,      \* "none" before the return, then "element" or "None"
    \* --- proceed_to_next_step
    proceed_page,     \* the page the browser shows when it is called
    proceed_pc,       \* idle or done
    proceed_clicked,  \* the buttons handed to safe_click, in that order
    proceed_result,   \* "none" before the return, then what it returned
    \* --- handle_contact_page
    contact_profile,  \* the argument `config`
    contact_before,   \* the input elements of the page when it is called
    contact_inputs,   \* the input elements of the page, in document order
    contact_pc,       \* idle, loop (inside the for loop) or done
    contact_i,        \* how many pairs of contact_fields the loop has taken
    filled_count,
    contact_result,   \* "none" before the return, then "True" or "False"
    \* --- handle_individual_question
    question_text,    \* the argument: the label of the question
    question,         \* the argument: the question element and the document
    question_config,  \* the argument `config`
    question_pc,      \* idle or done
    question_answer,  \* what the call did to the page, and for which keyword
    question_result,  \* "none" before the return, then "True" or "False"
    \* --- detect_page_type
    det_page,         \* the page the browser shows
    det_pc,           \* idle or done
    det_result,       \* the page_info dictionary returned
    \* --- RateLimiter
    clock,            \* time.time(), in whole seconds
    rl_max_requests,  \* self.max_requests
    rl_time_window,   \* self.time_window
    rl_requests,      \* self.requests
    rl_pc,            \* idle, or sleeping inside wait_if_needed
    rl_now,           \* the local `now` of the call in progress
    rl_wake,          \* the time at which the time.sleep in progress ends
    rl_last,          \* the last call that returned: when and after what
    rl_returns,       \* when the last max_requests + 1 calls returned
    \* --- process_application_workflow
    helpers_defined,  \* whether the functions defined below line 918 exist
    flow_windows,     \* the most windows the application flow of a job opens
    wf_site,          \* the pages of the application form, in their order
    wf,               \* the workflow's locals and the browser it drives
    \* --- main, from the login on
    propagating,      \* the exception on its way out of main, or "none"
    stats,            \* main's dictionary `stats`
    total_results_int,
    max_safe_pages,
    page_num,
    results,          \* len(results): the job cards found on the page
    job_index,
    history           \* what happened so far, for the properties

cfgVars == <<env, config, startup_error, pc, driver, browsers, launches,
             commands, ret, exit_code, browser>>

\* the variables of the other components, which main's start leaves alone
clickVars == <<click_pc, click_element, click_i, click_log, click_result>>
detVars == <<det_page, det_pc, det_result>>

rateVars == <<clock, rl_max_requests, rl_time_window, rl_requests, rl_pc,
              rl_now, rl_wake, rl_last, rl_returns>>

wfVars == <<helpers_defined, flow_windows, wf_site, wf>>
loopVars == <<propagating, stats, total_results_int, max_safe_pages,
              page_num, results, job_index, history>>

findVars == <<find_pc, find_timeout, find_attempt, find_log, find_waited,
              find_result>>

\* the variables of the helpers that are checked on their own
proceedVars == <<proceed_page, proceed_pc, proceed_clicked, proceed_result>>
contactVars == <<contact_profile, contact_before, contact_inputs, contact_pc,
                 contact_i, filled_count, contact_result>>
questionVars == <<question_text, question, question_config, question_pc,
                  question_answer, question_result>>
restVars == <<findVars, proceedVars, contactVars, questionVars>>

nonCfgVars == <<clickVars, detVars, rateVars, wfVars, loopVars, restVars>>
nonClickVars == <<cfgVars, detVars, rateVars, wfVars, loopVars, restVars>>
nonDetVars == <<cfgVars, clickVars, rateVars, wfVars, loopVars, restVars>>
nonRateVars == <<cfgVars, clickVars, detVars, wfVars, loopVars, restVars>>
nonWfVars == <<cfgVars, clickVars, detVars, rateVars, loopVars, restVars>>
nonFindVars == <<cfgVars, clickVars, detVars, rateVars, wfVars, loopVars,
                 proceedVars, contactVars, questionVars>>
nonProceedVars == <<cfgVars, clickVars, detVars, rateVars, wfVars, loopVars,
                    findVars, contactVars, questionVars>>
nonContactVars == <<cfgVars, clickVars, detVars, rateVars, wfVars, loopVars,
                    findVars, proceedVars, questionVars>>
nonQuestionVars == <<cfgVars, clickVars, detVars, rateVars, wfVars, loopVars,
                     findVars, proceedVars, contactVars>>

vars == <<cfgVars, nonCfgVars>>

(***************************************************************************)
(* Bounds of the model.                                                    *)
(***************************************************************************)
\* how many input elements a page given to handle_contact_page has
MaxInputs == 2
\* how many buttons a page given to proceed_to_next_step has
MaxButtons == 3
\* how many environment variables differ from the baseline environment
MaxDeviations == 2
\* how many phrases the text of a heading is made of
MaxTitlePhrases == 2
\* the time, in seconds, up to which the rate limiter is observed
MaxClock == 24
\* how many pages an application form has
MaxSitePages == 4
\* how many job cards a page of results shows
MaxJobs == 2
\* how many windows the application flow of one job opens
MaxFlowWindows == 2

(***************************************************************************)
(* Strings.                                                                *)
(***************************************************************************)
\* os.getenv found no such variable (the marker is no character sequence
\* any variable can hold)
Unset == <<"<unset>">>

UpperChars == <<"A","B","C","D","E","F","G","H","I","J","K","L","M",
                "N","O","P","Q","R","S","T","U","V","W","X","Y","Z">>
LowerChars == <<"a","b","c","d","e","f","g","h","i","j","k","l","m",
                "n","o","p","q","r","s","t","u","v","w","x","y","z">>
Digits == {"0","1","2","3","4","5","6","7","8","9"}
Whitespace == {" "}

\* str.lower() on one character
LowerChar(c) ==
    IF \E i \in 1..Len(UpperChars) : UpperChars[i] = c
    THEN LowerChars[CHOOSE i \in 1..Len(UpperChars) : UpperChars[i] = c]
    ELSE c

\* str.lower()
Lower(s) == [i \in 1..Len(s) |-> LowerChar(s[i])]

\* `sub in s` for Python strings
Contains(s, sub) ==
    \E i \in 0..(Len(s) - Len(sub)) :
        \A j \in 1..Len(sub) : s[i + j] = sub[j]

\* any(keyword in s for keyword in keywords)
ContainsAny(s, keywords) == \E k \in keywords : Contains(s, k)

\* str.strip(): leading and trailing white space removed
RECURSIVE LStrip(_)
LStrip(s) ==
    IF s # <<>> /\ Head(s) \in Whitespace THEN LStrip(Tail(s)) ELSE s

RECURSIVE RStrip(_)
RStrip(s) ==
    IF s # <<>> /\ s[Len(s)] \in Whitespace
    THEN RStrip(SubSeq(s, 1, Len(s) - 1))
    ELSE s

Strip(s) == RStrip(LStrip(s))

\* str.replace(char, ''): every occurrence of one character removed
RECURSIVE RemoveChar(_, _)
RemoveChar(s, c) ==
    IF s = <<>> THEN <<>>
    ELSE IF Head(s) = c THEN RemoveChar(Tail(s), c)
         ELSE <<Head(s)>> \o RemoveChar(Tail(s), c)

\* int(value) succeeds: optional white space, an optional sign, then digits,
\* single underscores allowed between digits
IntParses(s) ==
    LET t == Strip(s)
        u == IF t # <<>> /\ t[1] \in {"+", "-"} THEN Tail(t) ELSE t
    IN  /\ u # <<>>
        /\ \A i \in 1..Len(u) :
              \/ u[i] \in Digits
              \/ /\ u[i] = "_"
                 /\ 1 < i /\ i < Len(u)
                 /\ u[i - 1] \in Digits /\ u[i + 1] \in Digits

\* float(value) succeeds, for decimal notation: optional white space, an
\* optional sign, digits with at most one "." and at least one digit
FloatParses(s) ==
    LET t == Strip(s)
        u == IF t # <<>> /\ t[1] \in {"+", "-"} THEN Tail(t) ELSE t
    IN  /\ \E i \in 1..Len(u) : u[i] \in Digits
        /\ \A i \in 1..Len(u) : u[i] \in Digits \cup {"."}
        /\ Cardinality({i \in 1..Len(u) : u[i] = "."}) <= 1

(***************************************************************************)
(* The environment of load_config: environment variables and the file      *)
(* system.                                                                 *)
(***************************************************************************)
RequiredVars == {"PHONE_NUMBER", "ADDRESS", "CITY", "POSTAL_CODE", "STATE"}
ExperienceVars == {"PYTHON_EXPERIENCE", "JAVASCRIPT_EXPERIENCE",
                   "JAVA_EXPERIENCE", "AWS_EXPERIENCE", "DJANGO_EXPERIENCE",
                   "ANALYSIS_EXPERIENCE", "TEACHING_EXPERIENCE",
                   "PROGRAMMING_EXPERIENCE", "DEFAULT_EXPERIENCE"}
EnvVars == {"LOAD_DELAY", "RESUME_PATH"} \cup RequiredVars \cup ExperienceVars

\* the process's working directory, and the files and directories that exist
Cwd == <<"/">>
Files == { <<"/","r">>, <<"/","r","(">>, <<"/","q","(">> }
Dirs == { <<"/">>, <<"/","d">> }

\* an environment in which load_config succeeds
BaselineEnv ==
    [v \in EnvVars |->
        IF v = "LOAD_DELAY" THEN <<"2">>
        ELSE IF v = "RESUME_PATH" THEN <<"/","r">>
        ELSE IF v \in RequiredVars THEN <<"a">>
        ELSE <<"7">>]

\* the other values a variable takes in the model
Alternatives(v) ==
    IF v = "LOAD_DELAY" THEN { Unset, <<"x">> }
    ELSE IF v = "RESUME_PATH"
         THEN { Unset, <<"r">>, <<"/","d">>, <<"/","r","(">>, <<"/","q","(">> }
    ELSE IF v \in RequiredVars
         THEN { Unset, <<>>, <<"<">>, <<"a","<">> }
    ELSE { Unset, <<"x">>, <<"-","7">>, <<"7","(">> }

\* the environments that differ from the baseline in at most n variables
RECURSIVE Environments(_)
Environments(n) ==
    IF n = 0 THEN { BaselineEnv }
    ELSE LET prev == Environments(n - 1)
         IN  prev \cup
             UNION { UNION { { [e EXCEPT ![v] = a] : a \in Alternatives(v) }
                             : v \in EnvVars }
                     : e \in prev }

\* os.getenv(name, default)
Getenv(e, name, default) == IF e[name] = Unset THEN default ELSE e[name]

\* os.path.abspath, in the working directory Cwd
Abspath(p) ==
    IF p = <<>> THEN Cwd
    ELSE IF Head(p) = "/" THEN p
    ELSE Cwd \o p

(***************************************************************************)
(* BotConfig and its validation.                                           *)
(***************************************************************************)
required_fields == <<"phone", "address", "city", "postal", "state">>
experience_fields == <<"python_exp", "javascript_exp", "java_exp", "aws_exp",
                       "django_exp", "analysis_exp", "teaching_exp",
                       "programming_exp", "default_exp">>
\* the string fields of the dataclass, in declaration order
string_fields == <<"resume_path">> \o required_fields \o experience_fields
ConfigFields == { string_fields[i] : i \in 1..Len(string_fields) }

\* (DQ stands for the double-quote character, BQ for the backquote)
dangerous_chars == <<"<", ">", "DQ", "'", "&", ";", "(", ")", "|", "BQ">>

NoError == [type |-> "none", kind |-> "none", names |-> <<>>]
NoConfig == [f \in ConfigFields |-> Unset]

Range(s) == { s[i] : i \in 1..Len(s) }

\* the keyword arguments load_config passes to BotConfig(...)
ConfigArgs(e) ==
    [f \in ConfigFields |->
        CASE f = "resume_path" -> Abspath(Getenv(e, "RESUME_PATH",
                    <<"r","e","s","u","m","e",".","p","d","f">>))
          [] f = "phone"   -> Getenv(e, "PHONE_NUMBER", <<>>)
          [] f = "address" -> Getenv(e, "ADDRESS", <<>>)
          [] f = "city"    -> Getenv(e, "CITY", <<>>)
          [] f = "postal"  -> Getenv(e, "POSTAL_CODE", <<>>)
          [] f = "state"   -> Getenv(e, "STATE", <<>>)
          [] f = "python_exp"      -> Getenv(e, "PYTHON_EXPERIENCE", <<"0">>)
          [] f = "javascript_exp"  -> Getenv(e, "JAVASCRIPT_EXPERIENCE", <<"0">>)
          [] f = "java_exp"        -> Getenv(e, "JAVA_EXPERIENCE", <<"0">>)
          [] f = "aws_exp"         -> Getenv(e, "AWS_EXPERIENCE", <<"0">>)
          [] f = "django_exp"      -> Getenv(e, "DJANGO_EXPERIENCE", <<"0">>)
          [] f = "analysis_exp"    -> Getenv(e, "ANALYSIS_EXPERIENCE", <<"0">>)
          [] f = "teaching_exp"    -> Getenv(e, "TEACHING_EXPERIENCE", <<"0">>)
          [] f = "programming_exp" -> Getenv(e, "PROGRAMMING_EXPERIENCE", <<"0">>)
          [] f = "default_exp"     -> Getenv(e, "DEFAULT_EXPERIENCE", <<"0">>)]

\* a validation that forgets the last required field
MissingFields_ForgetsState(c) ==
    SelectSeq(SubSeq(required_fields, 1, Len(required_fields) - 1),
              LAMBDA f : c[f] = <<>>)

\* _validate_required_fields: the fields whose value is falsy, in order
MissingFields(c) == SelectSeq(required_fields, LAMBDA f : c[f] = <<>>)

ValidateRequiredFields(c) ==
    IF MissingFields(c) # <<>>
    THEN [type |-> "ValueError", kind |-> "missing_required",
          names |-> MissingFields(c)]
    ELSE NoError

\* _validate_file_paths
ValidateFilePaths(c) ==
    IF c["resume_path"] \notin Files \cup Dirs
    THEN [type |-> "FileNotFoundError", kind |-> "resume_not_found",
          names |-> <<"resume_path">>]
    ELSE IF c["resume_path"] \notin Files
    THEN [type |-> "ValueError", kind |-> "resume_not_a_file",
          names |-> <<"resume_path">>]
    ELSE NoError

\* a validation whose loop stops before the last experience field
BadExperience_ForgetsDefault(c) ==
    SelectSeq(SubSeq(experience_fields, 1, Len(experience_fields) - 1),
              LAMBDA f : ~IntParses(c[f]))

\* _validate_experience_values: the loop raises at the first field whose
\* value int() rejects
BadExperience(c) == SelectSeq(experience_fields, LAMBDA f : ~IntParses(c[f]))

ValidateExperienceValues(c) ==
    IF BadExperience(c) # <<>>
    THEN [type |-> "ValueError", kind |-> "experience_not_numeric",
          names |-> <<Head(BadExperience(c))>>]
    ELSE NoError

\* the inner loop of _sanitize_inputs on one value
RECURSIVE RemoveChars(_, _)
RemoveChars(s, chars) ==
    IF chars = <<>> THEN s
    ELSE RemoveChars(RemoveChar(s, Head(chars)), Tail(chars))

\* _sanitize_inputs
SanitizeInputs(c) == [f \in ConfigFields |-> RemoveChars(c[f], dangerous_chars)]

\* BotConfig.__post_init__: the first validation that raises decides; the
\* fields are sanitized last
PostInit(c) ==
    IF ValidateRequiredFields(c) # NoError
    THEN [error |-> ValidateRequiredFields(c), config |-> NoConfig]
    ELSE IF ValidateFilePaths(c) # NoError
    THEN [error |-> ValidateFilePaths(c), config |-> NoConfig]
    ELSE IF ValidateExperienceValues(c) # NoError
    THEN [error |-> ValidateExperienceValues(c), config |-> NoConfig]
    ELSE [error |-> NoError, config |-> SanitizeInputs(c)]

\* load_config: float(LOAD_DELAY) is evaluated first, then BotConfig(...);
\* every exception is logged and raised again
LoadConfigResult(e) ==
    IF ~FloatParses(Getenv(e, "LOAD_DELAY", <<"2",".","0">>))
    THEN [error |-> [type |-> "ValueError", kind |-> "load_delay_not_float",
                     names |-> <<"load_delay">>],
          config |-> NoConfig]
    ELSE PostInit(ConfigArgs(e))

(***************************************************************************)
(* handle_contact_page                                                     *)
(***************************************************************************)
\* lines 996-1003: the pairs of a locator input[name*="..."] and a field of
\* the profile
contact_fields ==
    <<[needle |-> <<"p","h","o","n","e">>, field |-> "phone"],
      [needle |-> <<"a","d","d","r","e","s","s">>, field |-> "address"],
      [needle |-> <<"c","i","t","y">>, field |-> "city"],
      [needle |-> <<"s","t","a","t","e">>, field |-> "state"],
      [needle |-> <<"z","i","p">>, field |-> "postal"],
      [needle |-> <<"p","o","s","t","a","l">>, field |-> "postal"]>>

\* the profiles given to the handler: one with five different values, and
\* the one load_config returns when PHONE_NUMBER is "<" (an empty phone)
ContactEnv ==
    [BaselineEnv EXCEPT !["PHONE_NUMBER"] = <<"5">>, !["CITY"] = <<"c">>,
                        !["POSTAL_CODE"] = <<"9">>, !["STATE"] = <<"s">>]

ContactProfiles ==
    { LoadConfigResult(ContactEnv).config,
      LoadConfigResult([ContactEnv EXCEPT !["PHONE_NUMBER"] = <<"<">>]).config }

\* The input elements of the pages: their name attribute, and their
\* condition: empty, holding a value, disabled, or empty with a clear() or a
\* send_keys() that raises.
InputNames ==
    { <<"p","h","o","n","e">>, <<"a","d","d","r","e","s","s">>, <<"z","i","p">>,
      <<"p","o","s","t","a","l","_","z","i","p">>, <<"e","m","a","i","l">> }
InputConditions == {"empty", "holds", "disabled", "clear_raises",
                    "send_raises"}

InputOf(name, condition) ==
    [name |-> name,
     value |-> IF condition = "holds" THEN <<"x">> ELSE <<>>,
     enabled |-> condition # "disabled",
     clear_ok |-> condition # "clear_raises",
     send_ok |-> condition # "send_raises"]

Inputs == { InputOf(n, c) : n \in InputNames, c \in InputConditions }

InputPages == UNION { [1..n -> Inputs] : n \in 0..MaxInputs }

\* driver.find_element(By.CSS_SELECTOR, 'input[name*="needle"]'): the
\* position of the first input whose name contains the needle, 0 when there
\* is none (NoSuchElementException)
FindInput(inputs, needle) ==
    LET found == { k \in 1..Len(inputs) : Contains(inputs[k].name, needle) }
    IN  IF found = {} THEN 0
        ELSE CHOOSE k \in found : \A l \in found : k <= l

\* a handler that writes into every enabled field
ShouldFill_EveryEnabled(input) ==
    input.enabled

\* line 1010: the field is enabled and its value attribute is empty
ShouldFill(input) ==
    input.enabled /\ input.value = <<>>

\* lines 1006-1018: one pair of contact_fields, on the inputs of the page
FillPair(inputs, pair, profile, count) ==
    LET value == profile[pair.field]
        k == FindInput(inputs, pair.needle)
    IN  IF value = <<>> \/ k = 0
        THEN [inputs |-> inputs, count |-> count]
        ELSE IF ~ShouldFill(inputs[k])
        THEN [inputs |-> inputs, count |-> count]
        ELSE IF ~inputs[k].clear_ok
        THEN [inputs |-> inputs, count |-> count]
        ELSE IF ~inputs[k].send_ok
        THEN [inputs |-> [inputs EXCEPT ![k].value = <<>>], count |-> count]
        ELSE [inputs |-> [inputs EXCEPT ![k].value = value],
              count |-> count + 1]

\* lines 993-1005: the call
ContactCall ==
    /\ contact_pc = "idle"
    /\ contact_pc' = "loop"
    /\ contact_i' = 0
    /\ filled_count' = 0
    /\ UNCHANGED <<contact_profile, contact_before, contact_inputs,
                   contact_result>>
    /\ UNCHANGED nonContactVars

\* lines 1006-1018: one iteration of the loop
ContactIteration ==
    /\ contact_pc = "loop"
    /\ contact_i < Len(contact_fields)
    /\ LET r == FillPair(contact_inputs, contact_fields[contact_i + 1],
                         contact_profile, filled_count)
       IN  /\ contact_inputs' = r.inputs
           /\ filled_count' = r.count
    /\ contact_i' = contact_i + 1
    /\ UNCHANGED <<contact_profile, contact_before, contact_pc,
                   contact_result>>
    /\ UNCHANGED nonContactVars

\* line 1020: return filled_count > 0
ContactReturn ==
    /\ contact_pc = "loop"
    /\ contact_i = Len(contact_fields)
    /\ contact_result' = IF filled_count > 0 THEN "True" ELSE "False"
    /\ contact_pc' = "done"
    /\ UNCHANGED <<contact_profile, contact_before, contact_inputs,
                   contact_i, filled_count>>
    /\ UNCHANGED nonContactVars

(***************************************************************************)
(* handle_individual_question                                              *)
(***************************************************************************)
\* lines 1056-1068: the free-text table, in the order of the dict literal
text_mappings ==
    <<[keyword |-> <<"p","y","t","h","o","n"," ","e","x","p","e","r","i","e","n","c","e">>,
       field |-> "python_exp"],
      [keyword |-> <<"j","a","v","a","s","c","r","i","p","t"," ","e","x","p","e","r","i","e","n","c","e">>,
       field |-> "javascript_exp"],
      [keyword |-> <<"j","a","v","a"," ","e","x","p","e","r","i","e","n","c","e">>,
       field |-> "java_exp"],
      [keyword |-> <<"a","w","s"," ","e","x","p","e","r","i","e","n","c","e">>,
       field |-> "aws_exp"],
      [keyword |-> <<"d","j","a","n","g","o"," ","e","x","p","e","r","i","e","n","c","e">>,
       field |-> "django_exp"],
      [keyword |-> <<"p","r","o","g","r","a","m","m","i","n","g"," ","e","x","p","e","r","i","e","n","c","e">>,
       field |-> "programming_exp"],
      [keyword |-> <<"p","h","o","n","e">>,
       field |-> "phone"],
      [keyword |-> <<"a","d","d","r","e","s","s">>,
       field |-> "address"],
      [keyword |-> <<"c","i","t","y">>,
       field |-> "city"],
      [keyword |-> <<"s","a","l","a","r","y">>,
       field |-> "salary"],
      [keyword |-> <<"e","x","p","e","r","i","e","n","c","e">>,
       field |-> "default_exp"]>>

\* lines 1071-1081: the fixed-choice table
choice_mappings ==
    <<[keyword |-> <<"a","u","t","h","o","r","i","z","a","t","i","o","n">>,
       field |-> "work_authorized"],
      [keyword |-> <<"a","u","t","h","o","r","i","z","e","d">>,
       field |-> "work_authorized"],
      [keyword |-> <<"e","d","u","c","a","t","i","o","n">>,
       field |-> "education"],
      [keyword |-> <<"s","p","o","n","s","o","r","s","h","i","p">>,
       field |-> "sponsorship_needed"],
      [keyword |-> <<"c","o","m","m","u","t","e">>,
       field |-> "commute_willing"],
      [keyword |-> <<"s","h","i","f","t">>,
       field |-> "preferred_shift"],
      [keyword |-> <<"d","i","s","a","b","i","l","i","t","y">>,
       field |-> "disability_status"],
      [keyword |-> <<"c","r","i","m","i","n","a","l">>,
       field |-> "criminal_record"],
      [keyword |-> <<"g","e","n","d","e","r">>,
       field |-> "gender"]>>

\* the preference fields of the profile and the values load_config gives
\* them when the environment does not set them (lines 214-229)
PreferenceFields ==
    {"work_authorized", "education",
     "sponsorship_needed", "commute_willing", "preferred_shift",
     "disability_status", "criminal_record", "gender",
     "default_unknown_answer"}

\* the profiles given to the handler: what load_config returns for
\* ContactEnv, with the salary expectation unset (empty) or set
QuestionConfig(salary) ==
    [f \in ConfigFields \cup PreferenceFields \cup {"salary"} |->
        CASE f = "salary" -> salary
          [] f = "work_authorized" -> <<"Y","e","s">>
          [] f = "education" -> <<"B","a","c","h","e","l","o","r">>
          [] f = "sponsorship_needed" -> <<"N","o">>
          [] f = "commute_willing" -> <<"Y","e","s">>
          [] f = "preferred_shift" -> <<"D","a","y"," ","s","h","i","f","t">>
          [] f = "disability_status" -> <<"D","e","c","l","i","n","e"," ","t","o"," ","a","n","s","w","e","r">>
          [] f = "criminal_record" -> <<"N","o">>
          [] f = "gender" -> <<"D","e","c","l","i","n","e"," ","t","o"," ","a","n","s","w","e","r">>
          [] f = "default_unknown_answer" -> <<"Y","e","s">>
          [] OTHER -> LoadConfigResult(ContactEnv).config[f]]

QuestionConfigs == { QuestionConfig(<<>>), QuestionConfig(<<"4","0","k">>) }

\* the labels of the questions of the model
QuestionTexts ==
    { <<"P","y","t","h","o","n"," ","e","x","p","e","r","i","e","n","c","e">>,
      <<"S","a","l","a","r","y"," ","a","n","d"," ","e","x","p","e","r","i","e","n","c","e">>,
      <<"C","i","t","y">>,
      <<"A","r","e"," ","y","o","u"," ","a","u","t","h","o","r","i","z","e","d","?">>,
      <<"E","d","u","c","a","t","i","o","n"," ","o","r"," ","c","o","m","m","u","t","e">>,
      <<"P","h","o","n","e"," ","a","n","d"," ","e","d","u","c","a","t","i","o","n">>,
      <<"F","a","v","o","u","r","i","t","e"," ","c","o","l","o","u","r">>,
      <<"P","r","e","f","e","r","r","e","d"," ","s","h","i","f","t">> }

\* The question element and its document, by what they answer to the
\* locators: the input inside the question ("text" is found by every input
\* locator; "number" is an input[type=number] whose id does not start with
\* input-q, found by the locator of line 1088 and not by the one of line
\* 1110), the text nodes of the document, and whether typing and clicking
\* work or raise.
ChoiceTexts == { <<"Y","e","s">>, <<"B","a","c","h","e","l","o","r">> }

Questions ==
    [input : {"none", "text", "number"},
     texts : SUBSET ChoiceTexts,
     write_ok : BOOLEAN,
     click_ok : BOOLEAN]

\* question.find_element(By.XPATH, '//*[contains(text(), "answer")]'): an
\* element of the document has a text node that contains the answer
FindChoice(q, answer) == \E t \in q.texts : Contains(t, answer)

NoAnswer == [kind |-> "none", keyword |-> <<>>, value |-> <<>>, writes |-> 0]

\* what a write or a click that was reached does: it returns True, or it
\* raises and the clause of line 1127 returns False
Answered(ok, kind, keyword, value) ==
    [result |-> IF ok THEN "True" ELSE "False",
     answer |-> [kind |-> IF ok THEN kind ELSE "error", keyword |-> keyword,
                 value |-> value, writes |-> IF ok THEN 1 ELSE 0]]

\* lines 1107-1125: the defaults, a text input first, a choice second
DefaultAnswer(q, profile) ==
    IF q.input = "text"
    THEN Answered(q.write_ok, "default_text", <<>>, profile["default_exp"])
    ELSE IF FindChoice(q, profile["default_unknown_answer"])
    THEN Answered(q.click_ok, "default_choice", <<>>,
                  profile["default_unknown_answer"])
    ELSE [result |-> "False", answer |-> NoAnswer]

\* lines 1095-1104: the loop over the fixed-choice table, from entry k on
RECURSIVE ChoiceLoop(_, _, _, _)
ChoiceLoop(k, lower, q, profile) ==
    IF k > Len(choice_mappings) THEN DefaultAnswer(q, profile)
    ELSE LET keyword == choice_mappings[k].keyword
             answer == profile[choice_mappings[k].field]
         IN  IF Contains(lower, keyword) /\ answer # <<>>
                /\ FindChoice(q, answer)
             THEN Answered(q.click_ok, "choice", keyword, answer)
             ELSE ChoiceLoop(k + 1, lower, q, profile)

\* lines 1084-1093: the loop over the free-text table, from entry k on
RECURSIVE TextLoop(_, _, _, _)
TextLoop(k, lower, q, profile) ==
    IF k > Len(text_mappings) THEN ChoiceLoop(1, lower, q, profile)
    ELSE LET keyword == text_mappings[k].keyword
             answer == profile[text_mappings[k].field]
         IN  IF Contains(lower, keyword) /\ answer # <<>>
                /\ q.input # "none"
             THEN Answered(q.write_ok, "text", keyword, answer)
             ELSE TextLoop(k + 1, lower, q, profile)

\* lines 1051-1129
HandleIndividualQuestion(q, text, profile) == TextLoop(1, Lower(text), q, profile)

\* the call
QuestionCall ==
    /\ question_pc = "idle"
    /\ LET r == HandleIndividualQuestion(question, question_text,
                                         question_config)
       IN  /\ question_answer' = r.answer
           /\ question_result' = r.result
    /\ question_pc' = "done"
    /\ UNCHANGED <<question_text, question, question_config>>
    /\ UNCHANGED nonQuestionVars

(***************************************************************************)
(* main, from its first line to the browser's launch, and its return.      *)
(***************************************************************************)
\* lines 532-534: config = load_config()
LoadConfig ==
    /\ pc = "load_config"
    /\ LET r == LoadConfigResult(env)
       IN  /\ config' = r.config
           /\ startup_error' = r.error
           /\ pc' = IF r.error = NoError THEN "setup_driver"
                    ELSE "startup_except"
    /\ UNCHANGED <<env, driver, browsers, launches, commands, ret, exit_code,
                   browser>>
    /\ UNCHANGED nonCfgVars

\* the browser before its launch, and right after it
NoBrowser == [windows |-> 0, focus |-> 0, main_closed |-> FALSE]
OneWindow == [windows |-> 1, focus |-> 1, main_closed |-> FALSE]

\* line 539: driver = setup_driver(config).  Chrome starts or does not; once
\* started, one of the scripts setup_driver sends may still fail, and then
\* setup_driver raises with the browser running and `driver` never bound.
SetupDriver ==
    /\ pc = "setup_driver"
    /\ launches' = launches + 1
    /\ \E outcome \in {"ok", "launch_failed", "script_failed"} :
          /\ browsers' = IF outcome = "launch_failed" THEN browsers
                         ELSE browsers + 1
          /\ commands' = IF outcome = "launch_failed" THEN commands ELSE TRUE
          /\ driver' = IF outcome = "ok" THEN "open" ELSE driver
          /\ browser' = IF outcome = "launch_failed" THEN browser
                        ELSE OneWindow
          /\ startup_error' =
                IF outcome = "ok" THEN NoError
                ELSE [type |-> "WebDriverException",
                      kind |-> "driver_init_failed", names |-> <<>>]
          /\ pc' = IF outcome = "ok" THEN "init_stats" ELSE "startup_except"
    /\ UNCHANGED <<env, config, ret, exit_code>>
    /\ UNCHANGED nonCfgVars

\* lines 775-777: except Exception as startup_error: return 1
StartupExcept ==
    /\ pc = "startup_except"
    /\ ret' = 1
    /\ pc' = "outer_finally"
    /\ UNCHANGED <<env, config, startup_error, driver, browsers, launches,
                   commands, exit_code, browser>>
    /\ UNCHANGED nonCfgVars

\* an outer finally block without the try around driver.quit(): the
\* exception of the call leaves main in place of the return
LeaveMain_QuitErrorEscapes(quit_error) ==
    IF propagating # "none" \/ quit_error # "none"
    THEN [pc |-> "raised", exit_code |-> exit_code]
    ELSE [pc |-> "exited", exit_code |-> IF ret = -1 THEN 0 ELSE ret]

\* lines 781-785: `except Exception: pass` drops the exception of
\* driver.quit(); then the pending exception goes on, or the pending
\* `return 1` of line 777 or the `return 0` of line 785 is done
LeaveMain(quit_error) ==
    IF propagating # "none"
    THEN [pc |-> "raised", exit_code |-> exit_code]
    ELSE [pc |-> "exited", exit_code |-> IF ret = -1 THEN 0 ELSE ret]

\* lines 778-785: driver.quit() inside try/except, then the return: the
\* pending `return 1` of the except clause, or line 785, `return 0`; an
\* exception on its way out goes on instead and main does not return.  With
\* `driver` unbound the call raises NameError before any command is sent;
\* quit may itself fail, and the exception is dropped.
OuterFinally ==
    /\ pc = "outer_finally"
    /\ \/ /\ driver = "unbound"
          /\ history' = [history EXCEPT !.quit_error = "NameError"]
          /\ pc' = LeaveMain("NameError").pc
          /\ exit_code' = LeaveMain("NameError").exit_code
          /\ UNCHANGED <<driver, browsers, commands>>
       \/ /\ driver # "unbound"
          /\ commands' = TRUE
          /\ \E quit_ok \in BOOLEAN :
                LET error == IF quit_ok THEN "none" ELSE "WebDriverException"
                IN  /\ driver' = IF quit_ok THEN "quit" ELSE driver
                    /\ browsers' = IF quit_ok /\ driver = "open"
                                   THEN browsers - 1 ELSE browsers
                    /\ history' = [history EXCEPT !.quit_calls = @ + 1,
                                                  !.quit_error = error]
                    /\ pc' = LeaveMain(error).pc
                    /\ exit_code' = LeaveMain(error).exit_code
    /\ UNCHANGED <<env, config, startup_error, launches, ret, browser>>
    /\ UNCHANGED <<propagating, stats, total_results_int, max_safe_pages,
                   page_num, results, job_index>>
    /\ UNCHANGED <<clickVars, detVars, rateVars, wfVars, restVars>>

(***************************************************************************)
(* SafeElementHandler.safe_click.                                          *)
(***************************************************************************)
\* the three strategies, in the order of the list `strategies`
strategies == <<"direct", "script", "move">>

\* what one call of a strategy does
ClickOutcomes == {"ok", "ElementClickIntercepted", "StaleElementReference",
                  "other_exception"}
\* random_scroll before the first strategy: no scroll (70%), a scroll, or a
\* scroll whose execute_script raises; the exception leaves the try block
\* before the strategy is called
ScrollOutcomes == {"none", "scrolled", "raised"}
\* random_mouse_movement catches its own exceptions
MouseOutcomes == {"none", "moved", "failed_and_ignored"}

\* a loop that gives up at the first unexpected exception
SafeClickStep_UnexpectedAborts(i, outcome) ==
    IF outcome = "ok"
    THEN [pc |-> "done", result |-> "true", i |-> i]
    ELSE IF outcome = "other_exception" \/ i + 1 >= Len(strategies)
    THEN [pc |-> "done", result |-> "false", i |-> i]
    ELSE [pc |-> "loop", result |-> "none", i |-> i + 1]

\* a loop that does not return after a click that worked
SafeClickStep_NoReturn(i, outcome) ==
    IF i + 1 < Len(strategies)
    THEN [pc |-> "loop", result |-> "none", i |-> i + 1]
    ELSE [pc |-> "done",
          result |-> IF outcome = "ok" THEN "true" ELSE "false", i |-> i]

\* one iteration of `for i, strategy in enumerate(strategies)`, given what the
\* try block did: return True after a click that worked; after any exception
\* go on with the next strategy; after the last one, return False
SafeClickStep(i, outcome) ==
    IF outcome = "ok"
    THEN [pc |-> "done", result |-> "true", i |-> i]
    ELSE IF i + 1 < Len(strategies)
    THEN [pc |-> "loop", result |-> "none", i |-> i + 1]
    ELSE [pc |-> "done", result |-> "false", i |-> i]

\* lines 451-460: the call; a falsy element returns False at once
SafeClickCall ==
    /\ click_pc = "idle"
    /\ \E e \in {"null", "element"} :
          /\ click_element' = e
          /\ click_pc' = IF e = "null" THEN "done" ELSE "loop"
          /\ click_result' = IF e = "null" THEN "false" ELSE "none"
    /\ UNCHANGED <<click_i, click_log>>
    /\ UNCHANGED nonClickVars

\* lines 462-480: one iteration of the loop
SafeClickIteration ==
    /\ click_pc = "loop"
    /\ \E scroll \in ScrollOutcomes, mouse \in MouseOutcomes,
          click \in ClickOutcomes :
          \* the human simulation runs in the first iteration only
          /\ click_i # 0 => scroll = "none" /\ mouse = "none"
          /\ scroll = "raised" => mouse = "none" /\ click = "other_exception"
          /\ LET step == SafeClickStep(click_i, click)
             IN  /\ click_log' = Append(click_log,
                        [strategy |-> strategies[click_i + 1],
                         scroll |-> scroll, mouse |-> mouse,
                         called |-> scroll # "raised",
                         outcome |-> click])
                 /\ click_pc' = step.pc
                 /\ click_result' = step.result
                 /\ click_i' = step.i
    /\ UNCHANGED click_element
    /\ UNCHANGED nonClickVars

(***************************************************************************)
(* SafeElementHandler.safe_find_element                                    *)
(***************************************************************************)
\* line 434: for attempt in range(3)
find_attempts == 3
\* line 443: time.sleep(1) between two attempts
find_backoff == 1
\* the values of `timeout` at the call sites (lines 432, 576, 589, 675)
FindTimeouts == {3, 5, 10}

\* What a WebDriverWait(driver, timeout).until(presence_of_element_located)
\* does: it returns the element once it is present, after `waited` seconds
\* of polling; it raises TimeoutException when `timeout` seconds passed
\* without the element; the driver raises something else at any moment.
Lookups(timeout) ==
    [kind : {"found", "unexpected"}, waited : 0..(timeout - 1)]
    \cup { [kind |-> "timeout", waited |-> timeout] }

\* a safe_find_element whose loop never gives up after a timeout
SafeFindStep_KeepsTrying(attempt, outcome) ==
    IF outcome = "found"
    THEN [pc |-> "done", result |-> "element", attempt |-> attempt,
          slept |-> 0]
    ELSE IF outcome = "timeout"
    THEN [pc |-> "loop", result |-> "none", attempt |-> attempt + 1,
          slept |-> find_backoff]
    ELSE [pc |-> "done", result |-> "None", attempt |-> attempt, slept |-> 0]

\* lines 434-449: one iteration of the loop, given what the wait did.  The
\* element is returned; a TimeoutException sleeps and goes round again while
\* attempt < 2 and returns None otherwise; any other Exception returns None.
SafeFindStep(attempt, outcome) ==
    IF outcome = "found"
    THEN [pc |-> "done", result |-> "element", attempt |-> attempt,
          slept |-> 0]
    ELSE IF outcome = "timeout"
    THEN IF attempt < 2 /\ attempt + 1 < find_attempts
         THEN [pc |-> "loop", result |-> "none", attempt |-> attempt + 1,
               slept |-> find_backoff]
         ELSE [pc |-> "done", result |-> "None", attempt |-> attempt,
               slept |-> 0]
    ELSE [pc |-> "done", result |-> "None", attempt |-> attempt, slept |-> 0]

\* lines 432-434: the call
SafeFindCall ==
    /\ find_pc = "idle"
    /\ find_timeout' \in FindTimeouts
    /\ find_pc' = "loop"
    /\ UNCHANGED <<find_attempt, find_log, find_waited, find_result>>
    /\ UNCHANGED nonFindVars

\* lines 435-449: one iteration of the loop
SafeFindAttempt ==
    /\ find_pc = "loop"
    /\ \E lookup \in Lookups(find_timeout) :
          LET step == SafeFindStep(find_attempt, lookup.kind)
          IN  /\ find_log' = Append(find_log, lookup.kind)
              /\ find_waited' = find_waited + lookup.waited + step.slept
              /\ find_pc' = step.pc
              /\ find_result' = step.result
              /\ find_attempt' = step.attempt
    /\ UNCHANGED find_timeout
    /\ UNCHANGED nonFindVars

(***************************************************************************)
(* Pages.  A page is described by what the browser answers to the queries  *)
(* of the code: which heading locator finds an element first and the text  *)
(* of that element, which structural markers exist, its other text nodes   *)
(* and its buttons.  Texts are made of phrases.                            *)
(***************************************************************************)
PhraseText(p) ==
    CASE p = "upload_your_resume"  -> <<"U","p","l","o","a","d"," ","y","o","u","r"," ","r","e","s","u","m","e">>
      [] p = "add_your_cv"         -> <<"A","d","d"," ","y","o","u","r"," ","C","V">>
      [] p = "contact_information" -> <<"C","o","n","t","a","c","t"," ","I","n","f","o","r","m","a","t","i","o","n">>
      [] p = "screening_questions" -> <<"S","c","r","e","e","n","i","n","g"," ","q","u","e","s","t","i","o","n","s">>
      [] p = "review"              -> <<"R","e","v","i","e","w">>
      [] p = "hello"               -> <<"H","e","l","l","o">>
      [] p = "application_submitted" -> <<"A","p","p","l","i","c","a","t","i","o","n"," ","s","u","b","m","i","t","t","e","d">>
      [] p = "already_applied"     -> <<"Y","o","u"," ","h","a","v","e"," ","a","l","r","e","a","d","y"," ","a","p","p","l","i","e","d">>

HeadingPhrases == {"upload_your_resume", "add_your_cv", "contact_information",
                   "screening_questions", "review", "hello"}

\* phrases joined by single spaces
RECURSIVE JoinPhrases(_)
JoinPhrases(ps) ==
    IF ps = <<>> THEN <<>>
    ELSE IF Len(ps) = 1 THEN PhraseText(ps[1])
    ELSE PhraseText(ps[1]) \o <<" ">> \o JoinPhrases(Tail(ps))

\* sequences of at most n elements of S
RECURSIVE SeqsUpTo(_, _)
SeqsUpTo(S, n) ==
    IF n = 0 THEN { <<>> }
    ELSE LET shorter == SeqsUpTo(S, n - 1)
         IN  shorter \cup { Append(q, x) : q \in shorter, x \in S }

\* title_element.text of the heading found: the phrases, with white space
\* around them when the page pads its heading
HeadingText(page) ==
    IF page.padded
    THEN <<" ">> \o JoinPhrases(page.phrases) \o <<" ", " ">>
    ELSE JoinPhrases(page.phrases)

\* lines 854-859; heading_sel is the position in this list of the first
\* locator for which safe_find_element returns an element, 0 when none does
title_selectors == <<".ia-BasePage-heading", "h1", "h2", ".ia-PageTitle",
                     "[data-testid='page-title']">>

\* a page without headings, markers, texts or buttons
BlankPage ==
    [heading_sel |-> 0, phrases |-> <<>>, padded |-> FALSE,
     file_input |-> FALSE, questions_item |-> FALSE, contact_input |-> FALSE,
     applied_marker |-> FALSE, texts |-> <<>>, buttons |-> <<>>]

\* the pages detect_page_type is run on
DetectPages ==
    { [BlankPage EXCEPT !.file_input = f, !.questions_item = q,
                        !.contact_input = c] : f, q, c \in BOOLEAN }
    \cup
    { [BlankPage EXCEPT !.heading_sel = h, !.phrases = ps, !.padded = pad,
          !.file_input = f, !.questions_item = q, !.contact_input = c] :
        h \in 1..Len(title_selectors),
        ps \in SeqsUpTo(HeadingPhrases, MaxTitlePhrases),
        pad \in BOOLEAN, f \in BOOLEAN, q \in BOOLEAN, c \in BOOLEAN }

(***************************************************************************)
(* detect_page_type.                                                       *)
(***************************************************************************)
upload_keywords == { <<"r","e","s","u","m","e">>, <<"c","v">>, <<"u","p","l","o","a","d">>, <<"d","o","c","u","m","e","n","t","s">> }
contact_keywords == { <<"c","o","n","t","a","c","t">>, <<"i","n","f","o","r","m","a","t","i","o","n">>, <<"d","e","t","a","i","l","s">> }
questions_keywords == { <<"q","u","e","s","t","i","o","n","s">>, <<"s","c","r","e","e","n","i","n","g">>, <<"a","s","s","e","s","s","m","e","n","t">> }
review_keywords == { <<"r","e","v","i","e","w">>, <<"s","u","m","m","a","r","y">>, <<"c","o","n","f","i","r","m">> }

\* lines 861-865: the title is the stripped text of the first heading found,
\* '' when no locator finds one
PageTitle(page) ==
    IF page.heading_sel = 0 THEN <<>> ELSE Strip(HeadingText(page))

\* a classification that tests the contact keywords before the upload ones
TitleType_ContactFirst(title_lower) ==
    IF ContainsAny(title_lower, contact_keywords) THEN "contact"
    ELSE IF ContainsAny(title_lower, upload_keywords) THEN "upload"
    ELSE IF ContainsAny(title_lower, questions_keywords) THEN "questions"
    ELSE IF ContainsAny(title_lower, review_keywords) THEN "review"
    ELSE "none"

\* lines 870-877: the if/elif chain over the keyword lists
TitleType(title_lower) ==
    IF ContainsAny(title_lower, upload_keywords) THEN "upload"
    ELSE IF ContainsAny(title_lower, contact_keywords) THEN "contact"
    ELSE IF ContainsAny(title_lower, questions_keywords) THEN "questions"
    ELSE IF ContainsAny(title_lower, review_keywords) THEN "review"
    ELSE "none"

\* probes that look for the questions container before the file input
StructuralType_QuestionsFirst(page) ==
    IF page.questions_item THEN "questions"
    ELSE IF page.file_input THEN "upload"
    ELSE IF page.contact_input THEN "contact"
    ELSE "unknown"

\* lines 878-885: the else branch, probing the DOM
StructuralType(page) ==
    IF page.file_input THEN "upload"
    ELSE IF page.questions_item THEN "questions"
    ELSE IF page.contact_input THEN "contact"
    ELSE "unknown"

\* detect_page_type
DetectPageType(page) ==
    LET title == PageTitle(page)
        by_title == TitleType(Lower(title))
    IN  [type |-> IF by_title # "none" THEN by_title ELSE StructuralType(page),
         title |-> title]

\* one call of detect_page_type on the page shown
DetectPageTypeCall ==
    /\ det_pc = "idle"
    /\ det_result' = DetectPageType(det_page)
    /\ det_pc' = "done"
    /\ UNCHANGED det_page
    /\ UNCHANGED nonDetVars

(***************************************************************************)
(* RateLimiter.  Time is counted in whole seconds.  time.sleep(d) returns  *)
(* no earlier than d seconds after it was called.                          *)
(***************************************************************************)
\* lines 355-356: the requests younger than the window, in their order
CleanOldRequests(requests, now, time_window) ==
    SelectSeq(requests, LAMBDA req_time : now - req_time < time_window)

\* a sleep that ends when the oldest request leaves the window
SleepTime_NoMargin(requests, now, time_window) ==
    time_window - (now - requests[1])

\* line 359: sleep_time = self.time_window - (now - self.requests[0]) + 1
SleepTime(requests, now, time_window) ==
    time_window - (now - requests[1]) + 1

\* the return times of the latest calls, one more than the budget: enough
\* to see whether the budget was exceeded inside a window
Returned(returns, time, max_requests) ==
    IF Len(returns) > max_requests
    THEN Append(Tail(returns), time) ELSE Append(returns, time)

NoCall == [called |-> -1, returned |-> -1, blocked |-> FALSE,
           window_start |-> -1]

\* time passes
Tick ==
    /\ clock < MaxClock
    /\ clock' = clock + 1
    /\ UNCHANGED <<rl_max_requests, rl_time_window, rl_requests, rl_pc,
                   rl_now, rl_wake, rl_last, rl_returns>>
    /\ UNCHANGED nonRateVars

\* lines 350-363, up to the return or to the call of time.sleep
WaitIfNeeded ==
    /\ rl_pc = "idle"
    /\ LET now == clock
           kept == CleanOldRequests(rl_requests, now, rl_time_window)
       IN  /\ rl_now' = now
           /\ IF Len(kept) >= rl_max_requests
              THEN /\ rl_requests' = kept
                   /\ rl_wake' = now + SleepTime(kept, now, rl_time_window)
                   /\ rl_pc' = "sleeping"
                   /\ UNCHANGED <<rl_last, rl_returns>>
              ELSE /\ rl_requests' = Append(kept, now)
                   /\ rl_last' = [called |-> now, returned |-> now,
                                  blocked |-> FALSE, window_start |-> -1]
                   /\ rl_returns' = Returned(rl_returns, clock, rl_max_requests)
                   /\ UNCHANGED <<rl_wake, rl_pc>>
    /\ UNCHANGED <<clock, rl_max_requests, rl_time_window>>
    /\ UNCHANGED nonRateVars

\* lines 361-363: time.sleep returns, `now` is appended, the call returns
WaitIfNeededWake ==
    /\ rl_pc = "sleeping"
    /\ clock >= rl_wake
    /\ rl_requests' = Append(rl_requests, rl_now)
    /\ rl_last' = [called |-> rl_now, returned |-> clock, blocked |-> TRUE,
                   window_start |-> rl_requests[1]]
    /\ rl_returns' = Returned(rl_returns, clock, rl_max_requests)
    /\ rl_pc' = "idle"
    /\ UNCHANGED <<clock, rl_max_requests, rl_time_window, rl_now, rl_wake>>
    /\ UNCHANGED nonRateVars

(***************************************************************************)
(* proceed_to_next_step.                                                   *)
(***************************************************************************)
\* lines 1142-1160, in their order: 1-4 submit/complete, 5-10 continue/next,
\* 11-12 generic submit controls
button_selectors ==
    <<"button[data-testid=submit-application]",
      "button[data-testid=complete-application]",
      "button[aria-label*=Submit]", ".css-njr1op",
      "button[data-testid=continue]", "button[data-testid=next]",
      "button[aria-label*=Continue]", "button[aria-label*=Next]",
      ".css-1gljdq7", ".css-10w34ze",
      "input[type=submit]", "button[type=submit]">>

submit_words == { <<"s","u","b","m","i","t">>, <<"c","o","m","p","l","e","t","e">>, <<"f","i","n","i","s","h">> }

\* safe_click on an element, given what each strategy does when it is
\* called: the loop of safe_click run to its return
RECURSIVE SafeClickFrom(_, _)
SafeClickFrom(i, outcomes) ==
    LET step == SafeClickStep(i, outcomes[i + 1])
    IN  IF step.pc = "done" THEN step.result = "true"
        ELSE SafeClickFrom(step.i, outcomes)

SafeClickResult(outcomes) == SafeClickFrom(0, outcomes)

\* lines 1166-1171: the button passes the tests made before the click
Actionable(b) ==
    /\ b.enabled /\ b.displayed
    /\ ~b.disabled_attr /\ ~b.class_disabled

\* the positions, in DOM order, of the buttons a selector finds
ButtonsOf(page, sel) ==
    SelectSeq([i \in 1..Len(page.buttons) |-> i],
              LAMBDA i : page.buttons[i].sel = sel)

\* the buttons in the order in which the two loops visit them
RECURSIVE VisitOrderFrom(_, _)
VisitOrderFrom(page, sel) ==
    IF sel > Len(button_selectors) THEN <<>>
    ELSE ButtonsOf(page, sel) \o VisitOrderFrom(page, sel + 1)

\* a search that takes the buttons as they stand in the document
VisitOrder_DocumentOrder(page) ==
    [i \in 1..Len(page.buttons) |-> i]

VisitOrder(page) ==
    VisitOrderFrom(page, 1)

\* lines 1184-1186: a query on a button raised (the element is stale); the
\* except clause is outside the loop over the buttons of the selector, so
\* the search goes on with the buttons of the next selectors
AfterSelector(page, order, sel) ==
    SelectSeq(order, LAMBDA i : page.buttons[i].sel # sel)

\* lines 1162-1187 over the buttons still to visit: a button whose queries
\* raise ends its selector; an actionable button is clicked; a click that
\* works ends the search, with 'submitted' when the button's text has a
\* submit word and with True otherwise; a click that fails goes on with the
\* next button; False when nothing is left
RECURSIVE ProceedOver(_, _, _)
ProceedOver(page, order, clicked) ==
    IF order = <<>>
    THEN [result |-> "False", clicked |-> clicked]
    ELSE LET b == page.buttons[Head(order)]
         IN  IF b.stale
             THEN ProceedOver(page, AfterSelector(page, order, b.sel),
                              clicked)
             ELSE IF ~Actionable(b)
             THEN ProceedOver(page, Tail(order), clicked)
             ELSE IF SafeClickResult(b.clicks)
             THEN [result |-> IF ContainsAny(Lower(b.label), submit_words)
                              THEN "submitted" ELSE "True",
                   clicked |-> Append(clicked, Head(order))]
             ELSE ProceedOver(page, Tail(order),
                              Append(clicked, Head(order)))

\* proceed_to_next_step
ProceedToNextStep(page) == ProceedOver(page, VisitOrder(page), <<>>)

\* Python's truth value of what proceed_to_next_step returns
Truthy(r) == r # "False"

(***************************************************************************)
(* The terminal conditions.                                                *)
(***************************************************************************)
\* the text nodes of a page: its heading and its other texts
TextNodes(page) ==
    (IF page.heading_sel = 0 THEN {} ELSE { HeadingText(page) })
    \cup { PhraseText(page.texts[i]) : i \in 1..Len(page.texts) }

\* driver.page_source: markup around the text nodes
RECURSIVE JoinTexts(_)
JoinTexts(ps) ==
    IF ps = <<>> THEN <<>>
    ELSE <<"<", "p", ">">> \o PhraseText(Head(ps)) \o JoinTexts(Tail(ps))

PageSource(page) ==
    (IF page.heading_sel = 0 THEN <<>>
     ELSE <<"<", "h", ">">> \o HeadingText(page))
    \o JoinTexts(page.texts)

\* check_already_applied: one of the three CSS markers, or a text node that
\* contains one of the two phrases (the XPath contains() compares case)
CheckAlreadyApplied(page) ==
    \/ page.applied_marker
    \/ \E n \in TextNodes(page) :
          \/ Contains(n, <<"a","l","r","e","a","d","y"," ","a","p","p","l","i","e","d">>)
          \/ Contains(n, <<"a","p","p","l","i","c","a","t","i","o","n"," ","s","u","b","m","i","t","t","e","d">>)

success_indicators ==
    { <<"a","p","p","l","i","c","a","t","i","o","n"," ","s","u","b","m","i","t","t","e","d">>,
      <<"a","p","p","l","i","c","a","t","i","o","n"," ","s","e","n","t">>,
      <<"a","p","p","l","i","c","a","t","i","o","n"," ","c","o","m","p","l","e","t","e">>,
      <<"t","h","a","n","k"," ","y","o","u"," ","f","o","r"," ","a","p","p","l","y","i","n","g">>,
      <<"y","o","u","r"," ","a","p","p","l","i","c","a","t","i","o","n"," ","h","a","s"," ","b","e","e","n"," ","s","e","n","t">> }

\* check_application_submitted
CheckApplicationSubmitted(page) ==
    ContainsAny(Lower(PageSource(page)), success_indicators)

(***************************************************************************)
(* The application form the workflow is run on.                            *)
(***************************************************************************)
AllOk == <<"ok", "ok", "ok">>
Blocked == <<"ElementClickIntercepted", "ElementClickIntercepted",
             "StaleElementReference">>

ContinueButton ==
    [sel |-> 5, enabled |-> TRUE, displayed |-> TRUE, disabled_attr |-> FALSE,
     class_disabled |-> FALSE, stale |-> FALSE,
     label |-> <<"C","o","n","t","i","n","u","e">>, clicks |-> AllOk]
SubmitButton ==
    [ContinueButton EXCEPT !.sel = 1,
        !.label = <<"S","u","b","m","i","t"," ","a","p","p","l","i","c","a","t","i","o","n">>]
DisabledButton == [ContinueButton EXCEPT !.disabled_attr = TRUE]
BlockedButton == [ContinueButton EXCEPT !.sel = 12, !.clicks = Blocked]

\* The buttons of the pages given to proceed_to_next_step on its own: found
\* by a submit selector (the first), a continue selector (the fifth) or a
\* generic one (the twelfth), and in one of these conditions.
ButtonSelectors == {1, 5, 12}
ButtonConditions == {"ok", "not_enabled", "hidden", "disabled_attr",
                     "class_disabled", "stale", "blocked"}

ButtonOf(sel, condition) ==
    [sel |-> sel,
     enabled |-> condition # "not_enabled",
     displayed |-> condition # "hidden",
     disabled_attr |-> condition = "disabled_attr",
     class_disabled |-> condition = "class_disabled",
     stale |-> condition = "stale",
     label |-> IF sel = 1 THEN SubmitButton.label ELSE ContinueButton.label,
     clicks |-> IF condition = "blocked" THEN Blocked ELSE AllOk]

Buttons == { ButtonOf(sel, c) : sel \in ButtonSelectors,
                                c \in ButtonConditions }

ButtonPages ==
    { [BlankPage EXCEPT !.buttons = bs] :
        bs \in UNION { [1..n -> Buttons] : n \in 0..MaxButtons } }

\* lines 1140-1187: proceed_to_next_step called on the page
ProceedCall ==
    /\ proceed_pc = "idle"
    /\ LET r == ProceedToNextStep(proceed_page)
       IN  /\ proceed_clicked' = r.clicked
           /\ proceed_result' = r.result
    /\ proceed_pc' = "done"
    /\ UNCHANGED proceed_page
    /\ UNCHANGED nonProceedVars

UploadPage ==
    [BlankPage EXCEPT !.heading_sel = 1, !.phrases = <<"upload_your_resume">>,
                      !.file_input = TRUE, !.buttons = <<ContinueButton>>]
QuestionsPage ==
    [BlankPage EXCEPT !.heading_sel = 2, !.phrases = <<"screening_questions">>,
                      !.questions_item = TRUE, !.buttons = <<ContinueButton>>]
ReviewPage ==
    [BlankPage EXCEPT !.heading_sel = 1, !.phrases = <<"review">>,
                      !.buttons = <<SubmitButton>>]
SubmittedPage ==
    [BlankPage EXCEPT !.texts = <<"application_submitted">>]
AppliedPage ==
    [BlankPage EXCEPT !.heading_sel = 2, !.phrases = <<"hello">>,
                      !.texts = <<"already_applied">>,
                      !.buttons = <<ContinueButton>>]
StuckPage ==
    [BlankPage EXCEPT !.contact_input = TRUE,
                      !.buttons = <<DisabledButton, BlockedButton>>]

FormPages == { UploadPage, QuestionsPage, ReviewPage, SubmittedPage,
               AppliedPage, StuckPage }

\* the form Upload, Questions, Review whose submit leads to a page with a
\* success indicator
SubmittingForm == <<UploadPage, QuestionsPage, ReviewPage, SubmittedPage>>

\* the forms: at least one page.  A click that works shows the next page;
\* on the last page it shows the same page again.
Sites(n) == SeqsUpTo(FormPages, n) \ { <<>> }

NextPageIndex(site, cur) == IF cur < Len(site) THEN cur + 1 ELSE cur

(***************************************************************************)
(* process_application_workflow.                                           *)
(***************************************************************************)
max_workflow_steps == 12

\* the workflow before its call: the windows of the browser, the window in
\* focus, the page of the form shown, and the locals of the function
WorkflowIdle(windows) ==
    [pc |-> "idle", step |-> 0, cur |-> 1,
     windows |-> windows, focus |-> 1,
     page_type |-> "none",
     checked |-> 0,          \* calls of check_already_applied that returned
     classified |-> 0,       \* calls of detect_page_type
     handled |-> <<>>,       \* the handlers called, in order
     handlers_failed |-> 0,  \* the handlers that returned False
     submit_clicks |-> 0,    \* advances that returned 'submitted'
     advanced |-> 0,         \* calls of proceed_to_next_step that were truthy
     advance_failed |-> FALSE,
     submitted_checks |-> 0, \* calls of check_application_submitted
     result |-> "none", outcome |-> "none"]

\* lines 795-801 and 844-846: the newest window gets the focus when there
\* are several.  When a command of the browser raises here, the outer except
\* clause returns False, with the focus where it was.
WfEnter(w, commands_ok) ==
    IF commands_ok
    THEN [w EXCEPT !.pc = "step_start",
                   !.focus = IF w.windows > 1 THEN w.windows ELSE w.focus]
    ELSE [w EXCEPT !.pc = "done", !.result = "False",
                   !.outcome = "workflow_error"]

\* lines 803-808 and 838-843: the head of the loop and the first statement
\* of a step.  After max_workflow_steps steps the loop ends and the function
\* returns False.  When the module runs as a script, main is called (line
\* 918) before check_already_applied and the other functions below it are
\* defined: the call raises NameError, which line 838 catches, the loop is
\* left and the function returns False.
\* a step that goes on to classify the page whatever the check finds
WfStepStart_GoesOn(w, site, helpers) ==
    IF w.step >= max_workflow_steps
    THEN [w EXCEPT !.pc = "done", !.result = "False",
                   !.outcome = "steps_exhausted"]
    ELSE IF ~helpers
    THEN [w EXCEPT !.pc = "done", !.result = "False",
                   !.outcome = "step_error"]
    ELSE [w EXCEPT !.pc = "classify", !.checked = @ + 1]

WfStepStart(w, site, helpers) ==
    IF w.step >= max_workflow_steps
    THEN [w EXCEPT !.pc = "done", !.result = "False",
                   !.outcome = "steps_exhausted"]
    ELSE IF ~helpers
    THEN [w EXCEPT !.pc = "done", !.result = "False",
                   !.outcome = "step_error"]
    ELSE IF CheckAlreadyApplied(site[w.cur])
    THEN [w EXCEPT !.pc = "done", !.result = "True",
                   !.checked = @ + 1, !.outcome = "already_applied"]
    ELSE [w EXCEPT !.pc = "classify", !.checked = @ + 1]

\* lines 811-812: page_info = detect_page_type(...)
WfClassify(w, site) ==
    [w EXCEPT !.pc = "handle", !.classified = @ + 1,
              !.page_type = DetectPageType(site[w.cur]).type]

\* lines 815-825: the handler for the page type; unknown pages get the
\* upload handler.  What the handler returns is not looked at.
HandlerFor(type) ==
    CASE type = "upload"    -> "handle_upload_page"
      [] type = "contact"   -> "handle_contact_page"
      [] type = "questions" -> "handle_questions_page"
      [] type = "review"    -> "handle_review_page"
      [] OTHER              -> "handle_upload_page"

\* lines 960-991 and 1131-1138: handle_upload_page, which
\* handle_review_page calls, returns False when no selector finds a file
\* input on the page
HandlerFails(page, handler) ==
    /\ handler \in {"handle_upload_page", "handle_review_page"}
    /\ ~page.file_input

WfHandle(w, site) ==
    [w EXCEPT !.pc = "proceed",
              !.handled = Append(@, HandlerFor(w.page_type)),
              !.handlers_failed =
                  IF HandlerFails(site[w.cur], HandlerFor(w.page_type))
                  THEN @ + 1 ELSE @]

\* lines 828-836: the advance.  After a click that worked the browser shows
\* the next page, and the text of that page decides whether the application
\* counts as submitted; otherwise the next step starts.  Without a click the
\* loop is left and the function returns False.
\* an advance whose failure lets the loop go on with the next step
WfProceed_NoBreak(w, site) ==
    IF Truthy(ProceedToNextStep(site[w.cur]).result)
    THEN [w EXCEPT !.pc = "step_start", !.advanced = @ + 1, !.step = @ + 1,
                   !.cur = NextPageIndex(site, w.cur),
                   !.submitted_checks = @ + 1]
    ELSE [w EXCEPT !.pc = "step_start", !.advance_failed = TRUE,
                   !.step = @ + 1]

\* an advance that takes the click on a submit button for the submission
WfProceed_TrustsSubmitClick(w, site) ==
    LET advance == ProceedToNextStep(site[w.cur]).result
        next == NextPageIndex(site, w.cur)
    IN  IF advance = "submitted"
        THEN [w EXCEPT !.pc = "done", !.cur = next, !.advanced = @ + 1,
                       !.step = @ + 1, !.submitted_checks = @ + 1,
                       !.submit_clicks = @ + 1,
                       !.result = "True", !.outcome = "submitted"]
        ELSE IF advance = "True"
        THEN [w EXCEPT !.pc = "step_start", !.cur = next,
                       !.advanced = @ + 1, !.step = @ + 1,
                       !.submitted_checks = @ + 1]
        ELSE [w EXCEPT !.pc = "done", !.advance_failed = TRUE,
                       !.step = @ + 1,
                       !.result = "False", !.outcome = "advance_failed"]

WfProceed(w, site) ==
    IF Truthy(ProceedToNextStep(site[w.cur]).result)
    THEN LET next == NextPageIndex(site, w.cur)
             clicks == IF ProceedToNextStep(site[w.cur]).result = "submitted"
                       THEN w.submit_clicks + 1 ELSE w.submit_clicks
         IN  IF CheckApplicationSubmitted(site[next])
             THEN [w EXCEPT !.pc = "done", !.cur = next, !.advanced = @ + 1,
                            !.step = @ + 1, !.submitted_checks = @ + 1,
                            !.submit_clicks = clicks,
                            !.result = "True", !.outcome = "submitted"]
             ELSE [w EXCEPT !.pc = "step_start", !.cur = next,
                            !.advanced = @ + 1, !.step = @ + 1,
                            !.submitted_checks = @ + 1,
                            !.submit_clicks = clicks]
    ELSE [w EXCEPT !.pc = "done", !.advance_failed = TRUE,
                   !.step = @ + 1,
                   !.result = "False", !.outcome = "advance_failed"]

\* the call
WorkflowCall ==
    /\ wf.pc = "idle"
    /\ \E commands_ok \in BOOLEAN : wf' = WfEnter(wf, commands_ok)
    /\ UNCHANGED <<helpers_defined, flow_windows, wf_site>>
    /\ UNCHANGED nonWfVars

\* a step begins: the budget and the already-applied check
WorkflowStepStart ==
    /\ wf.pc = "step_start"
    /\ wf' = WfStepStart(wf, wf_site, helpers_defined)
    /\ UNCHANGED <<helpers_defined, flow_windows, wf_site>>
    /\ UNCHANGED nonWfVars

\* the page is classified
WorkflowClassify ==
    /\ wf.pc = "classify"
    /\ wf' = WfClassify(wf, wf_site)
    /\ UNCHANGED <<helpers_defined, flow_windows, wf_site>>
    /\ UNCHANGED nonWfVars

\* the handler is called
WorkflowHandle ==
    /\ wf.pc = "handle"
    /\ wf' = WfHandle(wf, wf_site)
    /\ UNCHANGED <<helpers_defined, flow_windows, wf_site>>
    /\ UNCHANGED nonWfVars

\* the advance and the submitted check
WorkflowProceed ==
    /\ wf.pc = "proceed"
    /\ wf' = WfProceed(wf, wf_site)
    /\ UNCHANGED <<helpers_defined, flow_windows, wf_site>>
    /\ UNCHANGED nonWfVars

(***************************************************************************)
(* main, from the launch of the browser to the final statistics.           *)
(***************************************************************************)
NoStats ==
    [applications_attempted |-> 0, applications_successful |-> 0,
     applications_failed |-> 0, pages_processed |-> 0]

\* what the properties need of the past: whether the page loop was entered,
\* how often the final statistics were logged, whether a page raised, and
\* which clause ended the processing
NoHistory ==
    [loop_reached |-> FALSE, stats_logged |-> 0, page_error |-> FALSE,
     ending |-> "none", interrupt |-> "none",
     quit_calls |-> 0, quit_error |-> "none"]

\* what is noted of a Ctrl-C: where main stood when it arrived
Interrupted(noted, region) == [noted EXCEPT !.interrupt = region]

Note(event) ==
    CASE event = "page_error" -> [history EXCEPT !.page_error = TRUE]
      [] event \in {"job_error", "job_done"} -> history
      [] OTHER -> [history EXCEPT !.ending = event]

\* a main without its inner try: every exception reaches the outer clauses
HandlerOf_NoInnerTry(region, exception) ==
    IF exception = "KeyboardInterrupt" THEN "propagate"
    ELSE "startup_except"

\* The clause that handles an exception raised at a position of main.  The
\* positions: "startup" (lines 532-552 and the inner finally block, outside
\* the inner try), "inner" (the inner try outside the page try), "page" (the
\* page try outside the job try), "job" (the job try), "recovery" (the try
\* around driver.refresh).  `except Exception` does not catch
\* KeyboardInterrupt; only line 753 does, for the whole inner try.
HandlerOf(region, exception) ==
    IF exception = "KeyboardInterrupt"
    THEN IF region = "startup" THEN "propagate" ELSE "inner_interrupt"
    ELSE CASE region = "job"      -> "job_except"
           [] region = "page"     -> "page_except"
           [] region = "recovery" -> "recovery_except"
           [] region = "inner"    -> "inner_critical"
           [] OTHER               -> "startup_except"

\* a job loop without its except clause: an exception of a job ends the loop
\* as a critical error of the inner try
RaiseTo_JobErrorEndsLoop(handler) ==
    CASE handler = "page_except" ->
            [pc |-> "page_recover", propagating |-> "none",
             event |-> "page_error"]
      [] handler = "recovery_except" ->
            [pc |-> "inner_finally", propagating |-> "none",
             event |-> "recovery_failed"]
      [] handler \in {"job_except", "inner_critical"} ->
            [pc |-> "inner_finally", propagating |-> "none",
             event |-> "critical_error"]
      [] handler = "inner_interrupt" ->
            [pc |-> "inner_finally", propagating |-> "none",
             event |-> "interrupted"]
      [] handler = "startup_except" ->
            [pc |-> "startup_except", propagating |-> "none",
             event |-> "startup_error"]
      [] OTHER ->
            [pc |-> "outer_finally", propagating |-> "KeyboardInterrupt",
             event |-> "propagated"]

\* where a handling clause leaves main: the position, the exception still on
\* its way out, and what is noted of it
RaiseTo(handler) ==
    CASE handler = "job_except" ->
            [pc |-> "job_loop", propagating |-> "none", event |-> "job_error"]
      [] handler = "page_except" ->
            [pc |-> "page_recover", propagating |-> "none",
             event |-> "page_error"]
      [] handler = "recovery_except" ->
            [pc |-> "inner_finally", propagating |-> "none",
             event |-> "recovery_failed"]
      [] handler = "inner_critical" ->
            [pc |-> "inner_finally", propagating |-> "none",
             event |-> "critical_error"]
      [] handler = "inner_interrupt" ->
            [pc |-> "inner_finally", propagating |-> "none",
             event |-> "interrupted"]
      [] handler = "startup_except" ->
            [pc |-> "startup_except", propagating |-> "none",
             event |-> "startup_error"]
      [] OTHER ->
            [pc |-> "outer_finally", propagating |-> "KeyboardInterrupt",
             event |-> "propagated"]

\* lines 541-552: the simulator, the element handler, the statistics
InitStats ==
    /\ pc = "init_stats"
    /\ stats' = NoStats
    /\ pc' = "login"
    /\ UNCHANGED <<env, config, startup_error, driver, browsers, launches,
                   commands, ret, exit_code, browser>>
    /\ UNCHANGED <<propagating, total_results_int, max_safe_pages, page_num,
                   results, job_index, history>>
    /\ UNCHANGED <<clickVars, detVars, rateVars, wfVars, restVars>>

\* lines 554-572: the login page is opened and the user presses Enter; the
\* navigation may raise
Login ==
    /\ pc = "login"
    /\ commands' = TRUE
    /\ \E outcome \in {"ok", "Exception"} :
          IF outcome = "ok"
          THEN /\ pc' = "count_jobs"
               /\ UNCHANGED <<propagating, history>>
          ELSE LET r == RaiseTo(HandlerOf("inner", outcome))
               IN  /\ pc' = r.pc
                   /\ propagating' = r.propagating
                   /\ history' = Note(r.event)
    /\ UNCHANGED <<env, config, startup_error, driver, browsers, launches,
                   ret, exit_code, browser>>
    /\ UNCHANGED <<stats, total_results_int, max_safe_pages, page_num,
                   results, job_index>>
    /\ UNCHANGED <<clickVars, detVars, rateVars, wfVars, restVars>>

\* the texts of the job count element in the model; NoCountElement when no
\* selector finds one
NoCountElement == <<"<none>">>
JobCountTexts ==
    { <<"1",",","2","3","4"," ","j","o","b","s">>,
      <<"P","a","g","e"," ","1"," ","o","f"," ","4","5"," ","j","o","b","s">>,
      <<"4","5"," ","j","o","b","s">>,
      <<"3","1"," ","j","o","b","s">>,
      <<"j","o","b","s">> }

\* the first match of [\d,]+ in a text
RECURSIVE TakeRun(_)
TakeRun(s) ==
    IF s = <<>> \/ Head(s) \notin (Digits \cup {","}) THEN <<>>
    ELSE <<Head(s)>> \o TakeRun(Tail(s))

RECURSIVE FirstRun(_)
FirstRun(s) ==
    IF s = <<>> THEN <<>>
    ELSE IF Head(s) \in (Digits \cup {","}) THEN TakeRun(s)
    ELSE FirstRun(Tail(s))

DigitValue(c) ==
    CASE c = "0" -> 0 [] c = "1" -> 1 [] c = "2" -> 2 [] c = "3" -> 3
      [] c = "4" -> 4 [] c = "5" -> 5 [] c = "6" -> 6 [] c = "7" -> 7
      [] c = "8" -> 8 [] c = "9" -> 9

\* int() of a run of digits
RECURSIVE IntOf(_)
IntOf(s) ==
    IF s = <<>> THEN 0
    ELSE IntOf(SubSeq(s, 1, Len(s) - 1)) * 10 + DigitValue(s[Len(s)])

\* lines 594-606: the count parsed from the text, 100 without an element or
\* without a number in it
TotalResults(text) ==
    IF text = NoCountElement THEN 100
    ELSE LET number == FirstRun(RemoveChar(text, ","))
         IN  IF number = <<>> THEN 100 ELSE IntOf(number)

items_per_page == 15

Min(a, b) == IF a <= b THEN a ELSE b

\* a page count without the safety ceiling
MaxSafePages_NoCeiling(total) ==
    total \div items_per_page

\* line 612
MaxSafePages(total) ==
    Min(total \div items_per_page, 5)

\* lines 574-614: the job count and the number of pages to process; reading
\* the text of the element may raise
CountJobs ==
    /\ pc = "count_jobs"
    /\ \/ \E text \in JobCountTexts \cup {NoCountElement} :
             /\ total_results_int' = TotalResults(text)
             /\ max_safe_pages' = MaxSafePages(TotalResults(text))
             /\ page_num' = 0
             /\ pc' = "page_loop"
             /\ UNCHANGED <<propagating, history>>
       \/ LET r == RaiseTo(HandlerOf("inner", "Exception"))
          IN  /\ pc' = r.pc
              /\ propagating' = r.propagating
              /\ history' = Note(r.event)
              /\ UNCHANGED <<total_results_int, max_safe_pages, page_num>>
    /\ UNCHANGED <<env, config, startup_error, driver, browsers, launches,
                   commands, ret, exit_code, browser>>
    /\ UNCHANGED <<stats, results, job_index>>
    /\ UNCHANGED <<clickVars, detVars, rateVars, wfVars, restVars>>

\* the job cards can be used: the main window is in focus
OnResults(b) == b.focus = 1 /\ ~b.main_closed

\* lines 617-642: the head of the page loop.  After the last page the loop
\* ends.  Otherwise the page is counted, the rate limiter is asked (with 30
\* requests an hour and at most 5 pages it never sleeps), and the job cards
\* are looked up: none (continue), some, or the lookup raises.
PageStart ==
    /\ pc = "page_loop"
    /\ IF page_num >= max_safe_pages
       THEN /\ pc' = "inner_finally"
            /\ history' = Note("completed")
            /\ UNCHANGED <<stats, page_num, results, job_index,
                           propagating, rateVars>>
       ELSE /\ stats' = [stats EXCEPT !.pages_processed = @ + 1]
            /\ LET kept == CleanOldRequests(rl_requests, clock, rl_time_window)
               IN  /\ Len(kept) < rl_max_requests
                   /\ rl_requests' = Append(kept, clock)
                   /\ rl_now' = clock
                   /\ rl_last' = [called |-> clock, returned |-> clock,
                                  blocked |-> FALSE, window_start |-> -1]
                   /\ rl_returns' = Returned(rl_returns, clock, rl_max_requests)
                   /\ UNCHANGED <<clock, rl_max_requests, rl_time_window,
                                  rl_pc, rl_wake>>
            /\ \/ /\ browser.focus # 0
                  /\ page_num' = page_num + 1
                  /\ history' = [history EXCEPT !.loop_reached = TRUE]
                  /\ UNCHANGED <<pc, results, job_index, propagating>>
               \/ /\ OnResults(browser)
                  /\ \E n \in 1..MaxJobs : results' = n
                  /\ job_index' = 0
                  /\ pc' = "job_loop"
                  /\ history' = [history EXCEPT !.loop_reached = TRUE]
                  /\ UNCHANGED <<page_num, propagating>>
               \/ LET r == RaiseTo(HandlerOf("page", "Exception"))
                  IN  /\ pc' = r.pc
                      /\ propagating' = r.propagating
                      /\ history' = [Note(r.event) EXCEPT
                                        !.loop_reached = TRUE]
                      /\ UNCHANGED <<page_num, results, job_index>>
    /\ UNCHANGED <<env, config, startup_error, driver, browsers, launches,
                   commands, ret, exit_code, browser, total_results_int,
                   max_safe_pages>>
    /\ UNCHANGED <<clickVars, detVars, wfVars, restVars>>

\* process_application_workflow run to its return
WfNext(w, site, helpers, commands_ok) ==
    CASE w.pc = "idle"       -> WfEnter(w, commands_ok)
      [] w.pc = "step_start" -> WfStepStart(w, site, helpers)
      [] w.pc = "classify"   -> WfClassify(w, site)
      [] w.pc = "handle"     -> WfHandle(w, site)
      [] w.pc = "proceed"    -> WfProceed(w, site)

RECURSIVE WorkflowRun(_, _, _, _)
WorkflowRun(w, site, helpers, commands_ok) ==
    IF w.pc = "done" THEN w
    ELSE WorkflowRun(WfNext(w, site, helpers, commands_ok), site, helpers,
                     commands_ok)

\* the forms behind the apply buttons of the model
JobSites == { SubmittingForm, <<StuckPage>>, <<AppliedPage>>, <<UploadPage>> }

\* what a job card does: the click on the card fails; no apply button is
\* found; the click on the apply button fails; a command raises before the
\* workflow; the user interrupts; the apply button opens a form, in the
\* window of the results or in windows of its own
JobKinds == { "card_click_fails", "no_apply_button", "apply_click_fails",
              "raises", "interrupted", "applies" }

\* what the commands after the workflow do (lines 709-711)
AfterWorkflow == { "ok", "handles_raise", "close_raises", "switch_raises" }

\* driver.close(): the window in focus goes, and nothing is in focus
CloseWindow(b) ==
    [windows |-> b.windows - 1, focus |-> 0,
     main_closed |-> b.main_closed \/ b.focus = 1]

\* lines 709-711: back to the first window when there are several
BackToMain(b) ==
    IF b.windows > 1 THEN [CloseWindow(b) EXCEPT !.focus = 1] ELSE b

\* lines 725-731: the recovery of the job's except clause.  The handle list
\* is read before the close: when the window closed is the first of the
\* list, the switch to windows[0] raises and no window is in focus.  Any
\* exception is dropped.
Recover(b) ==
    IF b.windows > 1
    THEN IF b.focus = 0 THEN b
         ELSE IF b.focus = 1 THEN CloseWindow(b)
         ELSE [CloseWindow(b) EXCEPT !.focus = 1]
    ELSE IF b.windows = 1 THEN [b EXCEPT !.focus = 1]
    ELSE b

\* every workflow main can start, run once: by whether the helper functions
\* are defined, whether the window commands work, the number of windows at
\* the call (the main window, and the windows the flows of the jobs of two
\* pages of results opened), and the form
WorkflowResults ==
    [helpers \in BOOLEAN |->
        [commands_ok \in BOOLEAN |->
            [windows \in 1..(1 + 2 * MaxJobs * MaxFlowWindows) |->
                [site \in JobSites |->
                    WorkflowRun(WorkflowIdle(windows), site, helpers,
                                commands_ok)]]]]

\* the job of lines 649-718 up to its end or to the exception it raises
JobRun(kind, site, new_windows, switch_ok, after) ==
    LET attempted == [stats EXCEPT !.applications_attempted = @ + 1]
        opened == [browser EXCEPT !.windows = @ + new_windows]
        final == WorkflowResults[helpers_defined][switch_ok][opened.windows]
                                [site]
        counted == IF final.result = "True"
                   THEN [attempted EXCEPT !.applications_successful = @ + 1]
                   ELSE [attempted EXCEPT !.applications_failed = @ + 1]
        in_form == [opened EXCEPT !.focus = final.focus]
        quiet == [stats |-> attempted, browser |-> browser,
                  raised |-> "none"]
    IN  CASE kind = "raises" ->
                [quiet EXCEPT !.raised = "Exception"]
          [] kind = "interrupted" ->
                [quiet EXCEPT !.raised = "KeyboardInterrupt"]
          [] kind = "applies" ->
                [stats |-> counted,
                 browser |->
                    CASE after = "ok" -> BackToMain(in_form)
                      [] after = "switch_raises" -> CloseWindow(in_form)
                      [] OTHER -> in_form,
                 raised |-> IF after = "ok" THEN "none" ELSE "Exception"]
          [] OTHER -> quiet

\* lines 645-718: one job card, the body of the job try
ProcessJob ==
    /\ pc = "job_loop"
    /\ job_index < results
    /\ \E kind \in JobKinds, site \in JobSites,
          new_windows \in 0..flow_windows,
          switch_ok \in BOOLEAN, after \in AfterWorkflow :
          /\ kind # "applies"
                => /\ site = SubmittingForm /\ new_windows = 0 /\ switch_ok
                   /\ after = "ok"
          /\ ~OnResults(browser)
                => kind \in {"card_click_fails", "raises", "interrupted"}
          /\ after \in {"close_raises", "switch_raises"}
                => browser.windows + new_windows > 1
          /\ LET job == JobRun(kind, site, new_windows, switch_ok, after)
                 r == RaiseTo(HandlerOf("job", job.raised))
             IN  IF job.raised = "none"
                 THEN /\ stats' = job.stats
                      /\ browser' = job.browser
                      /\ job_index' = job_index + 1
                      /\ UNCHANGED <<pc, propagating, history>>
                 ELSE IF job.raised = "Exception"
                 THEN /\ stats' = job.stats
                      /\ browser' = job.browser
                      /\ pc' = "job_raised"
                      /\ UNCHANGED <<job_index, propagating, history>>
                 ELSE /\ stats' = job.stats
                      /\ browser' = job.browser
                      /\ pc' = r.pc
                      /\ propagating' = r.propagating
                      /\ history' = Interrupted(Note(r.event), "job")
                      /\ UNCHANGED job_index
    /\ commands' = TRUE
    /\ UNCHANGED <<env, config, startup_error, driver, browsers, launches,
                   ret, exit_code, total_results_int, max_safe_pages,
                   page_num, results>>
    /\ UNCHANGED <<clickVars, detVars, rateVars, wfVars, restVars>>

\* lines 720-733: an exception left the body of the job try.  The clause that
\* handles it counts the job as failed, brings the browser back to the main
\* window as well as it can and goes on with the next job card.
JobExcept ==
    /\ pc = "job_raised"
    /\ LET r == RaiseTo(HandlerOf("job", "Exception"))
       IN  /\ pc' = r.pc
           /\ propagating' = r.propagating
           /\ history' = Note(r.event)
           /\ IF r.event = "job_error"
              THEN /\ stats' = [stats EXCEPT !.applications_failed = @ + 1]
                   /\ browser' = Recover(browser)
                   /\ job_index' = job_index + 1
              ELSE UNCHANGED <<stats, browser, job_index>>
    /\ UNCHANGED <<env, config, startup_error, driver, browsers, launches,
                   commands, ret, exit_code, total_results_int,
                   max_safe_pages, page_num, results>>
    /\ UNCHANGED <<clickVars, detVars, rateVars, wfVars, restVars>>

\* lines 735-739: after the last job card, the next page of results unless
\* this was the last page: navigate_to_next_page returns True, returns False
\* (break), or raises
PageEnd ==
    /\ pc = "job_loop"
    /\ job_index >= results
    /\ IF page_num < max_safe_pages - 1
       THEN \/ /\ page_num' = page_num + 1
               /\ pc' = "page_loop"
               /\ UNCHANGED <<propagating, history>>
            \/ /\ pc' = "inner_finally"
               /\ history' = Note("pagination_ended")
               /\ UNCHANGED <<propagating, page_num>>
            \/ LET r == RaiseTo(HandlerOf("page", "Exception"))
               IN  /\ pc' = r.pc
                   /\ propagating' = r.propagating
                   /\ history' = Note(r.event)
                   /\ UNCHANGED page_num
       ELSE /\ page_num' = page_num + 1
            /\ pc' = "page_loop"
            /\ UNCHANGED <<propagating, history>>
    /\ UNCHANGED <<env, config, startup_error, driver, browsers, launches,
                   commands, ret, exit_code, browser>>
    /\ UNCHANGED <<stats, total_results_int, max_safe_pages, results,
                   job_index>>
    /\ UNCHANGED <<clickVars, detVars, rateVars, wfVars, restVars>>

\* lines 741-751: the page's except clause: driver.refresh(), and the next
\* page; when the refresh raises, break
PageRecover ==
    /\ pc = "page_recover"
    /\ \/ /\ browser.focus # 0
          /\ page_num' = page_num + 1
          /\ pc' = "page_loop"
          /\ UNCHANGED <<propagating, history>>
       \/ LET r == RaiseTo(HandlerOf("recovery", "Exception"))
          IN  /\ pc' = r.pc
              /\ propagating' = r.propagating
              /\ history' = Note(r.event)
              /\ UNCHANGED page_num
    /\ UNCHANGED <<env, config, startup_error, driver, browsers, launches,
                   commands, ret, exit_code, browser>>
    /\ UNCHANGED <<stats, total_results_int, max_safe_pages, results,
                   job_index>>
    /\ UNCHANGED <<clickVars, detVars, rateVars, wfVars, restVars>>

\* lines 757-773: the inner finally block logs the final statistics
InnerFinally ==
    /\ pc = "inner_finally"
    /\ history' = [history EXCEPT !.stats_logged = @ + 1]
    /\ pc' = "outer_finally"
    /\ UNCHANGED <<env, config, startup_error, driver, browsers, launches,
                   commands, ret, exit_code, browser>>
    /\ UNCHANGED <<propagating, stats, total_results_int, max_safe_pages,
                   page_num, results, job_index>>
    /\ UNCHANGED <<clickVars, detVars, rateVars, wfVars, restVars>>

\* where main stands when the user presses Ctrl-C between two statements
RegionOf(position) ==
    IF position \in {"login", "count_jobs", "page_loop", "job_loop",
                     "page_recover"}
    THEN "inner" ELSE "startup"

\* the user presses Ctrl-C
KeyboardInterruptRaised ==
    /\ pc \in {"load_config", "setup_driver", "init_stats", "login",
               "count_jobs", "page_loop", "job_loop", "page_recover",
               "inner_finally"}
    /\ LET r == RaiseTo(HandlerOf(RegionOf(pc), "KeyboardInterrupt"))
       IN  /\ pc' = r.pc
           /\ propagating' = r.propagating
           /\ history' = Interrupted(Note(r.event), RegionOf(pc))
    /\ UNCHANGED <<env, config, startup_error, driver, browsers, launches,
                   commands, ret, exit_code, browser>>
    /\ UNCHANGED <<stats, total_results_int, max_safe_pages, page_num,
                   results, job_index>>
    /\ UNCHANGED <<clickVars, detVars, rateVars, wfVars, restVars>>

(***************************************************************************)
(* Initial states and specifications.                                      *)
(***************************************************************************)
\* main before its first line
InitStartup ==
    /\ config = NoConfig
    /\ startup_error = NoError
    /\ pc = "load_config"
    /\ driver = "unbound"
    /\ browsers = 0
    /\ launches = 0
    /\ commands = FALSE
    /\ ret = -1
    /\ exit_code = -1
    /\ browser = NoBrowser

\* no call of safe_click yet
InitClickIdle ==
    /\ click_pc = "idle"
    /\ click_element = "none"
    /\ click_i = 0
    /\ click_log = <<>>
    /\ click_result = "none"

\* no call of detect_page_type yet
InitFindIdle ==
    /\ find_pc = "idle"
    /\ find_timeout = 10
    /\ find_attempt = 0
    /\ find_log = <<>>
    /\ find_waited = 0
    /\ find_result = "none"

InitProceedIdle ==
    /\ proceed_page = BlankPage
    /\ proceed_pc = "idle"
    /\ proceed_clicked = <<>>
    /\ proceed_result = "none"

InitContactIdle ==
    /\ contact_profile = NoConfig
    /\ contact_before = <<>>
    /\ contact_inputs = <<>>
    /\ contact_pc = "idle"
    /\ contact_i = 0
    /\ filled_count = 0
    /\ contact_result = "none"

InitQuestionIdle ==
    /\ question_text = <<>>
    /\ question = [input |-> "none", texts |-> {}, write_ok |-> TRUE,
                   click_ok |-> TRUE]
    /\ question_config = NoConfig
    /\ question_pc = "idle"
    /\ question_answer = NoAnswer
    /\ question_result = "none"

InitRestIdle ==
    InitFindIdle /\ InitProceedIdle /\ InitContactIdle /\ InitQuestionIdle

InitDetectIdle ==
    /\ det_page = BlankPage
    /\ det_pc = "idle"
    /\ det_result = [type |-> "unknown", title |-> <<>>]

\* the limiter main builds (line 538), never called
InitRateIdle ==
    /\ clock = 0
    /\ rl_max_requests = 30
    /\ rl_time_window = 3600
    /\ rl_requests = <<>>
    /\ rl_pc = "idle"
    /\ rl_now = 0
    /\ rl_wake = 0
    /\ rl_last = NoCall
    /\ rl_returns = <<>>

\* main before its loop
InitLoopIdle ==
    /\ propagating = "none"
    /\ stats = NoStats
    /\ total_results_int = 0
    /\ max_safe_pages = 0
    /\ page_num = 0
    /\ results = 0
    /\ job_index = 0
    /\ history = NoHistory

\* no workflow running
InitWorkflowIdle ==
    /\ helpers_defined = TRUE
    /\ flow_windows = 1
    /\ wf_site = <<BlankPage>>
    /\ wf = WorkflowIdle(1)

\* SpecConfig: the start of main, for every environment of the model
InitConfig ==
    /\ env \in Environments(MaxDeviations)
    /\ InitStartup
    /\ InitClickIdle
    /\ InitRestIdle
    /\ InitDetectIdle
    /\ InitRateIdle
    /\ InitWorkflowIdle
    /\ InitLoopIdle

NextConfig ==
    LoadConfig \/ SetupDriver \/ InitStats \/ StartupExcept \/ OuterFinally

SpecConfig == InitConfig /\ [][NextConfig]_vars

\* SpecClick: one call of safe_click
InitClick ==
    /\ InitClickIdle
    /\ InitRestIdle
    /\ env = BaselineEnv /\ InitStartup
    /\ InitDetectIdle
    /\ InitRateIdle
    /\ InitWorkflowIdle
    /\ InitLoopIdle

NextClick == SafeClickCall \/ SafeClickIteration

SpecClick == InitClick /\ [][NextClick]_vars

\* safe_find_element on its own
InitFind ==
    /\ env = BaselineEnv /\ InitStartup
    /\ InitClickIdle
    /\ InitDetectIdle
    /\ InitRateIdle
    /\ InitWorkflowIdle
    /\ InitLoopIdle
    /\ InitFindIdle
    /\ InitProceedIdle
    /\ InitContactIdle
    /\ InitQuestionIdle

NextFind == SafeFindCall \/ SafeFindAttempt

SpecFind == InitFind /\ [][NextFind]_vars

\* proceed_to_next_step on its own, on every page of ButtonPages
InitProceed ==
    /\ env = BaselineEnv /\ InitStartup
    /\ InitClickIdle
    /\ InitDetectIdle
    /\ InitRateIdle
    /\ InitWorkflowIdle
    /\ InitLoopIdle
    /\ InitFindIdle
    /\ proceed_page \in ButtonPages
    /\ proceed_pc = "idle"
    /\ proceed_clicked = <<>>
    /\ proceed_result = "none"
    /\ InitContactIdle
    /\ InitQuestionIdle

NextProceed == ProceedCall

SpecProceed == InitProceed /\ [][NextProceed]_vars

\* handle_contact_page on its own, on every page of InputPages
InitContact ==
    /\ env = BaselineEnv /\ InitStartup
    /\ InitClickIdle
    /\ InitDetectIdle
    /\ InitRateIdle
    /\ InitWorkflowIdle
    /\ InitLoopIdle
    /\ InitFindIdle
    /\ InitProceedIdle
    /\ contact_profile \in ContactProfiles
    /\ contact_before \in InputPages
    /\ contact_inputs = contact_before
    /\ contact_pc = "idle"
    /\ contact_i = 0
    /\ filled_count = 0
    /\ contact_result = "none"
    /\ InitQuestionIdle

NextContact == ContactCall \/ ContactIteration \/ ContactReturn

SpecContact == InitContact /\ [][NextContact]_vars

\* handle_individual_question on its own, on every question of the model
InitQuestion ==
    /\ env = BaselineEnv /\ InitStartup
    /\ InitClickIdle
    /\ InitDetectIdle
    /\ InitRateIdle
    /\ InitWorkflowIdle
    /\ InitLoopIdle
    /\ InitFindIdle
    /\ InitProceedIdle
    /\ InitContactIdle
    /\ question_text \in QuestionTexts
    /\ question \in Questions
    /\ question_config \in QuestionConfigs
    /\ question_pc = "idle"
    /\ question_answer = NoAnswer
    /\ question_result = "none"

NextQuestion == QuestionCall

SpecQuestion == InitQuestion /\ [][NextQuestion]_vars

\* SpecDetect: detect_page_type on every page of the model
InitDetect ==
    /\ det_page \in DetectPages
    /\ det_pc = "idle"
    /\ det_result = [type |-> "unknown", title |-> <<>>]
    /\ env = BaselineEnv /\ InitStartup
    /\ InitClickIdle
    /\ InitRestIdle
    /\ InitRateIdle
    /\ InitWorkflowIdle
    /\ InitLoopIdle

NextDetect == DetectPageTypeCall

SpecDetect == InitDetect /\ [][NextDetect]_vars

\* SpecRate: one RateLimiter, built with 2 requests per 10 seconds or with
\* 1 request per 3 seconds, called at any time by its single caller
InitRate ==
    /\ clock = 0
    /\ \E params \in { <<2, 10>>, <<1, 3>> } :
          /\ rl_max_requests = params[1]
          /\ rl_time_window = params[2]
    /\ rl_requests = <<>>
    /\ rl_pc = "idle"
    /\ rl_now = 0
    /\ rl_wake = 0
    /\ rl_last = NoCall
    /\ rl_returns = <<>>
    /\ env = BaselineEnv /\ InitStartup
    /\ InitClickIdle
    /\ InitRestIdle
    /\ InitDetectIdle
    /\ InitWorkflowIdle
    /\ InitLoopIdle

NextRate == Tick \/ WaitIfNeeded \/ WaitIfNeededWake

SpecRate == InitRate /\ [][NextRate]_vars

\* SpecWorkflow: one call of process_application_workflow on every form of
\* the model, after the apply click opened a second window or did not, with
\* the module run as a script (the helper functions undefined at the call)
\* or imported (all functions defined)
InitWorkflow ==
    /\ helpers_defined \in BOOLEAN
    /\ flow_windows = 1
    /\ wf_site \in Sites(MaxSitePages)
    /\ \E windows \in {1, 2} : wf = WorkflowIdle(windows)
    /\ env = BaselineEnv /\ InitStartup
    /\ InitLoopIdle
    /\ InitClickIdle
    /\ InitRestIdle
    /\ InitDetectIdle
    /\ InitRateIdle

NextWorkflow ==
    \/ WorkflowCall \/ WorkflowStepStart \/ WorkflowClassify
    \/ WorkflowHandle \/ WorkflowProceed

SpecWorkflow == InitWorkflow /\ [][NextWorkflow]_vars

\* the environments main is run in: the complete one, and those with one
\* variable changed that load_config rejects
RejectedEnvironments ==
    { e \in Environments(1) : LoadConfigResult(e).error # NoError }

MainEnvironments == {BaselineEnv} \cup RejectedEnvironments

\* SpecMain: main from its first line to its return, the module run as a
\* script or imported, on a site whose application forms open in the window
\* of the results or in one window of their own
InitMain ==
    /\ env \in MainEnvironments
    /\ InitStartup
    /\ InitClickIdle
    /\ InitRestIdle
    /\ InitDetectIdle
    /\ InitRateIdle
    /\ helpers_defined \in BOOLEAN
    /\ flow_windows = 1
    /\ wf_site = <<BlankPage>>
    /\ wf = WorkflowIdle(1)
    /\ InitLoopIdle

NextMain ==
    \/ LoadConfig \/ SetupDriver \/ InitStats \/ StartupExcept
    \/ Login \/ CountJobs \/ PageStart \/ ProcessJob \/ JobExcept \/ PageEnd
    \/ PageRecover \/ InnerFinally \/ OuterFinally
    \/ KeyboardInterruptRaised

SpecMain == InitMain /\ [][NextMain]_vars

\* SpecJobs: the page loop of main on two pages of results (the count element
\* read "31 jobs"), from the first pass of the loop to the return, on sites
\* whose application flows open up to MaxFlowWindows windows
InitJobs ==
    /\ env = BaselineEnv
    /\ config = LoadConfigResult(BaselineEnv).config
    /\ startup_error = NoError
    /\ pc = "page_loop"
    /\ driver = "open"
    /\ browsers = 1
    /\ launches = 1
    /\ commands = TRUE
    /\ ret = -1
    /\ exit_code = -1
    /\ browser = OneWindow
    /\ InitClickIdle
    /\ InitRestIdle
    /\ InitDetectIdle
    /\ InitRateIdle
    /\ helpers_defined \in BOOLEAN
    /\ flow_windows \in 0..MaxFlowWindows
    /\ wf_site = <<BlankPage>>
    /\ wf = WorkflowIdle(1)
    /\ propagating = "none"
    /\ stats = NoStats
    /\ total_results_int = TotalResults(<<"3","1"," ","j","o","b","s">>)
    /\ max_safe_pages = MaxSafePages(total_results_int)
    /\ page_num = 0
    /\ results = 0
    /\ job_index = 0
    /\ history = NoHistory

NextJobs ==
    \/ PageStart \/ ProcessJob \/ JobExcept \/ PageEnd \/ PageRecover
    \/ InnerFinally \/ OuterFinally \/ KeyboardInterruptRaised

SpecJobs == InitJobs /\ [][NextJobs]_vars

(***************************************************************************)
(* Properties of the start of main (SpecConfig).                           *)
(***************************************************************************)
\* the environment variable behind each experience field (load_config)
ExperienceVarOf(f) ==
    CASE f = "python_exp"      -> "PYTHON_EXPERIENCE"
      [] f = "javascript_exp"  -> "JAVASCRIPT_EXPERIENCE"
      [] f = "java_exp"        -> "JAVA_EXPERIENCE"
      [] f = "aws_exp"         -> "AWS_EXPERIENCE"
      [] f = "django_exp"      -> "DJANGO_EXPERIENCE"
      [] f = "analysis_exp"    -> "ANALYSIS_EXPERIENCE"
      [] f = "teaching_exp"    -> "TEACHING_EXPERIENCE"
      [] f = "programming_exp" -> "PROGRAMMING_EXPERIENCE"
      [] f = "default_exp"     -> "DEFAULT_EXPERIENCE"

\* some required value is absent from the environment, or empty
EnvMissingRequired == \E v \in RequiredVars : env[v] \in { Unset, <<>> }

\* the experience fields whose value int() rejects
OffendingExperience ==
    { f \in Range(experience_fields) :
        ~IntParses(IF env[ExperienceVarOf(f)] = Unset THEN <<"0">>
                   ELSE env[ExperienceVarOf(f)]) }

\* the first of them in the order of the dataclass
FirstOffendingExperience ==
    experience_fields[CHOOSE i \in 1..Len(experience_fields) :
        /\ experience_fields[i] \in OffendingExperience
        /\ \A j \in 1..(i - 1) : experience_fields[j] \notin OffendingExperience]

\* the checks that run before the experience values are looked at pass
EarlierChecksPass ==
    /\ FloatParses(IF env["LOAD_DELAY"] = Unset THEN <<"2",".","0">>
                   ELSE env["LOAD_DELAY"])
    /\ ~EnvMissingRequired
    /\ env["RESUME_PATH"] # Unset
    /\ Abspath(env["RESUME_PATH"]) \in Files

\* C1: with a required value (phone, address, city, postal, state) missing,
\* load_config raises, setup_driver is never called, no browser is launched,
\* no browser command is issued, and main returns 1.
C1_MissingRequiredFailsBeforeBrowser ==
    EnvMissingRequired =>
        /\ pc \notin {"setup_driver", "login"}
        /\ launches = 0 /\ browsers = 0 /\ ~commands /\ driver = "unbound"
        /\ config = NoConfig
        /\ pc # "load_config" => startup_error # NoError
        /\ pc = "exited" => exit_code = 1

C1_Witness ==
    /\ EnvMissingRequired
    /\ pc = "exited" /\ exit_code = 1
    /\ startup_error.kind = "missing_required"

\* C2 as stated: whenever an experience value fails integer parsing, startup
\* fails with an error that names the offending experience field.
C2_Original ==
    (OffendingExperience # {} /\ pc # "load_config") =>
        /\ startup_error.kind = "experience_not_numeric"
        /\ \E i \in 1..Len(startup_error.names) :
              startup_error.names[i] \in OffendingExperience

\* C2 as amended: whenever an experience value fails integer parsing, startup
\* fails before any browser is launched; the error names the first offending
\* experience field when the earlier checks (load delay, required fields,
\* resume file) pass, and reports the earlier failure otherwise.
C2_BadExperienceFailsStartup ==
    (OffendingExperience # {} /\ pc # "load_config") =>
        /\ startup_error # NoError
        /\ config = NoConfig
        /\ launches = 0 /\ browsers = 0
        /\ pc = "exited" => exit_code = 1
        /\ IF EarlierChecksPass
           THEN /\ startup_error.kind = "experience_not_numeric"
                /\ startup_error.names = <<FirstOffendingExperience>>
           ELSE startup_error.kind # "experience_not_numeric"

C2_Witness ==
    /\ Cardinality(OffendingExperience) > 1
    /\ pc = "exited" /\ exit_code = 1
    /\ startup_error.kind = "experience_not_numeric"

(***************************************************************************)
(* Properties of safe_click (SpecClick).                                   *)
(***************************************************************************)
RecoverableClickErrors == {"ElementClickIntercepted", "StaleElementReference"}

\* C6: a strategy that succeeds after every earlier strategy raised
\* click-intercepted or stale-element makes safe_click return True; the
\* strategies are tried in the order direct, script, move, and none is tried
\* after the one that succeeded.
C6_FirstSuccessWins ==
    \A k \in 1..Len(click_log) :
        ( /\ click_log[k].outcome = "ok"
          /\ \A j \in 1..(k - 1) :
                click_log[j].outcome \in RecoverableClickErrors ) =>
            /\ click_pc = "done" /\ click_result = "true"
            /\ Len(click_log) = k
            /\ \A j \in 1..k : click_log[j].strategy = strategies[j]
                               /\ click_log[j].called

C6_Witness ==
    /\ click_pc = "done" /\ click_result = "true"
    /\ Len(click_log) = 3
    /\ click_log[1].outcome = "ElementClickIntercepted"
    /\ click_log[2].outcome = "StaleElementReference"
    /\ click_log[3].outcome = "ok"

\* C7 as stated: safe_click returns False only if each of the three
\* strategies was attempted and raised click-intercepted or stale-element.
C7_Original ==
    (click_pc = "done" /\ click_result = "false") =>
        /\ Len(click_log) = Len(strategies)
        /\ \A k \in 1..Len(click_log) :
              /\ click_log[k].called
              /\ click_log[k].outcome \in RecoverableClickErrors

\* C7 as amended: safe_click returns False only if the element is null (no
\* strategy is tried) or each of the three iterations, in the order direct,
\* script, move, ended in an exception of any kind and none succeeded.
C7_FalseOnlyAfterThreeFailures ==
    (click_pc = "done" /\ click_result = "false") =>
        \/ click_element = "null" /\ click_log = <<>>
        \/ /\ click_element = "element"
           /\ Len(click_log) = Len(strategies)
           /\ \A k \in 1..Len(click_log) :
                 /\ click_log[k].strategy = strategies[k]
                 /\ click_log[k].outcome # "ok"

C7_Witness ==
    /\ click_pc = "done" /\ click_result = "false"
    /\ Len(click_log) = 3
    /\ \E k \in 1..3 : click_log[k].outcome = "other_exception"

(***************************************************************************)
(* Properties of detect_page_type (SpecDetect).                            *)
(***************************************************************************)
\* the keyword set each phrase of a heading belongs to
PhraseClass(p) ==
    CASE p \in {"upload_your_resume", "add_your_cv"} -> "upload"
      [] p = "contact_information" -> "contact"
      [] p = "screening_questions" -> "questions"
      [] p = "review" -> "review"
      [] OTHER -> "none"

\* the keyword sets the heading of the page shown has a keyword of
HeadingClasses ==
    IF det_page.heading_sel = 0 THEN {}
    ELSE { PhraseClass(det_page.phrases[i]) : i \in 1..Len(det_page.phrases) }
         \ {"none"}

\* C8: the heading is tested against the keyword sets in the order upload,
\* contact, questions, review and the first set that matches decides: a
\* heading with "Upload your resume" (or another upload keyword) gives upload
\* whatever else the heading says and whatever markers the page has.
C8_HeadingPriority ==
    det_pc = "done" =>
        /\ "upload" \in HeadingClasses => det_result.type = "upload"
        /\ ("upload" \notin HeadingClasses /\ "contact" \in HeadingClasses)
              => det_result.type = "contact"
        /\ ({"upload", "contact"} \cap HeadingClasses = {}
              /\ "questions" \in HeadingClasses)
              => det_result.type = "questions"
        /\ HeadingClasses = {"review"} => det_result.type = "review"

C8_Witness ==
    /\ det_pc = "done"
    /\ det_page.heading_sel = 3
    /\ det_page.phrases = <<"contact_information", "upload_your_resume">>
    /\ det_page.padded
    /\ det_page.questions_item /\ ~det_page.file_input
    /\ det_result.type = "upload"

\* C9: without a recognizable heading (no heading found, or a heading with no
\* keyword) the page is classified by its structure: a file input gives
\* upload, else a questions container gives questions, else a phone or email
\* input gives contact, else the page is unknown.
C9_StructuralFallback ==
    (det_pc = "done" /\ HeadingClasses = {}) =>
        /\ det_page.file_input => det_result.type = "upload"
        /\ (~det_page.file_input /\ det_page.questions_item)
              => det_result.type = "questions"
        /\ (~det_page.file_input /\ ~det_page.questions_item
              /\ det_page.contact_input) => det_result.type = "contact"
        /\ (~det_page.file_input /\ ~det_page.questions_item
              /\ ~det_page.contact_input) => det_result.type = "unknown"

C9_Witness ==
    /\ det_pc = "done"
    /\ det_page.heading_sel = 2 /\ det_page.phrases = <<"hello">>
    /\ det_page.file_input /\ det_page.questions_item
    /\ det_page.contact_input
    /\ det_result.type = "upload"

(***************************************************************************)
(* Properties of the RateLimiter (SpecRate).                               *)
(***************************************************************************)
\* C5 as stated: with 2 requests per 10 seconds, a third request inside the
\* window sleeps until exactly the oldest retained timestamp plus 10 seconds.
C5_Original ==
    (rl_max_requests = 2 /\ rl_time_window = 10 /\ rl_pc = "sleeping") =>
        rl_wake = rl_requests[1] + 10

\* C5 as amended: the request sleeps until the oldest retained timestamp plus
\* the window plus one second (for 2 per 10 seconds: window_start + 11), and
\* wait_if_needed does not return before that time.
C5_BlockedUntilWindowEndPlusOne ==
    /\ rl_pc = "sleeping" =>
          /\ Len(rl_requests) >= rl_max_requests
          /\ rl_wake = rl_requests[1] + rl_time_window + 1
          /\ (rl_max_requests = 2 /\ rl_time_window = 10)
                => rl_wake = rl_requests[1] + 11
    /\ rl_last.blocked =>
          rl_last.returned >= rl_last.window_start + rl_time_window + 1

C5_Witness ==
    /\ rl_max_requests = 2 /\ rl_time_window = 10
    /\ rl_pc = "idle" /\ rl_last.blocked
    /\ rl_last.window_start = 2 /\ rl_last.called = 9
    /\ rl_last.returned = 13

(***************************************************************************)
(* Properties of process_application_workflow (SpecWorkflow).              *)
(***************************************************************************)
\* the call returned without having seen a terminal condition and without a
\* failed advance
WorkflowRanOut ==
    /\ wf.pc = "done"
    /\ wf.outcome \notin {"already_applied", "submitted", "workflow_error"}
    /\ ~wf.advance_failed

\* twelve classify-handle-advance steps were made
TwelveSteps ==
    /\ wf.classified = 12
    /\ Len(wf.handled) = 12
    /\ wf.advanced = 12

\* C3: a workflow in which no terminal condition is ever detected and every
\* advance click succeeds makes exactly 12 classify-handle-advance steps and
\* then stops with a non-success result.  The statement as the claim makes
\* it, for every way of running the module; it fails when the module runs
\* as a script, where the first step raises NameError and no step is made.
C3_Original ==
    WorkflowRanOut => TwelveSteps /\ wf.result = "False"

\* The same when every function of the module is defined at the call (the
\* module imported, main called afterwards).
C3_WhenHelpersDefined ==
    helpers_defined /\ WorkflowRanOut => TwelveSteps /\ wf.result = "False"

\* a workflow that ran out of steps with every function defined
C3_RanOutOfSteps ==
    helpers_defined /\ WorkflowRanOut /\ wf.outcome = "steps_exhausted"

\* a workflow that ended on the NameError of its first step
C3_ScriptRun ==
    ~helpers_defined /\ WorkflowRanOut /\ wf.classified = 0

\* C4: on a form that presents Upload, then Questions, then Review, and
\* whose page after the Review advance carries a success indicator, the
\* workflow, its browser answering every command, ends after at most 3
\* steps with outcome submitted.  The statement as the claim makes it, for
\* every way of running the module; it fails when the module runs as a
\* script.
C4_Original ==
    (wf_site = SubmittingForm /\ wf.pc = "done"
        /\ wf.outcome # "workflow_error")
        => /\ wf.result = "True"
           /\ wf.outcome = "submitted"
           /\ wf.step <= 3

\* The same when every function of the module is defined at the call and
\* the window commands work.
C4_WhenHelpersDefined ==
    (helpers_defined /\ wf_site = SubmittingForm /\ wf.pc = "done"
        /\ wf.outcome # "workflow_error")
        => /\ wf.result = "True"
           /\ wf.outcome = "submitted"
           /\ wf.step = 3
           /\ wf.handled = <<"handle_upload_page", "handle_questions_page",
                             "handle_review_page">>

\* the form was submitted in three steps
C4_Submitted ==
    /\ helpers_defined /\ wf_site = SubmittingForm
    /\ wf.pc = "done" /\ wf.outcome = "submitted"

\* the same form, the module run as a script
C4_ScriptRun ==
    /\ ~helpers_defined /\ wf_site = SubmittingForm
    /\ wf.pc = "done" /\ wf.result = "False"

(***************************************************************************)
(* Properties of main (SpecMain).                                          *)
(***************************************************************************)
\* load_config rejects the environment
ConfigRejected == env \in RejectedEnvironments

\* setup_driver was called and returned no driver
LaunchFailed == launches > 0 /\ driver = "unbound"

\* C10: main returns 1 exactly when the configuration is invalid or the
\* launch of the browser fails, and returns 0 whenever the page loop was
\* reached, whatever happened to jobs and pages.
C10_ExitCode ==
    pc = "exited" =>
        /\ exit_code \in {0, 1}
        /\ exit_code = 1 <=> (ConfigRejected \/ LaunchFailed)
        /\ history.loop_reached => exit_code = 0

\* main returned 0 after a run in which a job failed and a page raised
C10_Witness ==
    /\ pc = "exited" /\ exit_code = 0
    /\ history.loop_reached
    /\ stats.applications_failed > 0
    /\ history.page_error

(***************************************************************************)
(* Properties of the profile load_config returns (SpecConfig).             *)
(***************************************************************************)
\* load_config returned a profile
ProfileReturned == pc # "load_config" /\ config # NoConfig

\* C11: every profile load_config returns has a non-empty phone, address,
\* city, postal and state.  The statement as the claim makes it; it fails
\* for a required value made of removed characters only (PHONE_NUMBER=<),
\* which passes _validate_required_fields and is emptied by
\* _sanitize_inputs, the last step of __post_init__.
C11_Original ==
    ProfileReturned =>
        \A i \in 1..Len(required_fields) : config[required_fields[i]] # <<>>

\* What the order of __post_init__ does give: a required field of a
\* returned profile is empty only if its value in the environment had
\* nothing but removed characters.
C11_EmptyOnlyBySanitize ==
    ProfileReturned =>
        \A i \in 1..Len(required_fields) :
            config[required_fields[i]] = <<>>
                => /\ ConfigArgs(env)[required_fields[i]] # <<>>
                   /\ RemoveChars(ConfigArgs(env)[required_fields[i]],
                                  dangerous_chars) = <<>>

\* a profile was returned with an empty required field
C11_EmptiedProfile ==
    /\ ProfileReturned
    /\ \E i \in 1..Len(required_fields) : config[required_fields[i]] = <<>>

(***************************************************************************)
(* Properties of the rolling window (SpecRate).                            *)
(***************************************************************************)
\* the calls number i to j returned inside one interval of length time_window
InOneWindow(i, j) == rl_returns[j] - rl_returns[i] < rl_time_window

\* C12: no rolling interval of length time_window holds more than
\* max_requests returns of wait_if_needed.  The statement as the claim makes
\* it; it fails because a call that slept is recorded with the time at which
\* it was made (line 363 appends the `now` of line 352), not the time at
\* which it returned, so it leaves the window too early.
C12_Original ==
    \A i \in 1..Len(rl_returns) :
        i + rl_max_requests <= Len(rl_returns)
            => ~InOneWindow(i, i + rl_max_requests)

\* What the list does bound: the calls admitted without sleeping.  After a
\* call that was not made to sleep, the list holds at most max_requests
\* timestamps, all inside the window that ends at the call.
C12_RecordedWithinBudget ==
    (rl_pc = "idle" /\ rl_last # NoCall /\ ~rl_last.blocked
        /\ rl_last.returned = clock)
        => /\ Len(rl_requests) <= rl_max_requests
           /\ \A k \in 1..Len(rl_requests) :
                 clock - rl_requests[k] < rl_time_window

\* three calls returned within 10 seconds under a budget of 2 per 10
C12_OverBudget ==
    /\ rl_max_requests = 2 /\ rl_time_window = 10
    /\ Len(rl_returns) >= 3
    /\ InOneWindow(Len(rl_returns) - 2, Len(rl_returns))

(***************************************************************************)
(* Properties of the steps of the workflow (SpecWorkflow).                 *)
(***************************************************************************)
\* the page the browser shows to the workflow
CurrentPage == wf_site[wf.cur]

\* the workflow is inside a step, past the already-applied check
PastAppliedCheck == wf.pc \in {"classify", "handle", "proceed"}

\* C13: when check_already_applied detects the condition at the start of a
\* step, the workflow returns True at once: the step is never continued on
\* a page where the check finds the condition, and at the return the step
\* that detected it has made the check and nothing else (as many pages
\* classified, handlers called and advances clicked as steps completed
\* before it).
C13_AlreadyAppliedStopsAtOnce ==
    /\ PastAppliedCheck => ~CheckAlreadyApplied(CurrentPage)
    /\ wf.outcome = "already_applied" =>
          /\ wf.pc = "done" /\ wf.result = "True"
          /\ CheckAlreadyApplied(CurrentPage)
          /\ wf.checked = wf.step + 1
          /\ wf.classified = wf.step
          /\ Len(wf.handled) = wf.step
          /\ wf.advanced = wf.step

\* the condition was detected at the start of a step after the first
C13_Witness ==
    /\ wf.pc = "done" /\ wf.outcome = "already_applied"
    /\ wf.step >= 1

\* C14: when proceed_to_next_step fails, the workflow aborts with failure:
\* it is at its return with False, the failed step classified the page and
\* called the handler but made no check of the submitted condition (one
\* check per advance that worked), and the page is one on which no button
\* can be clicked.
C14_FailedAdvanceAborts ==
    /\ wf.submitted_checks = wf.advanced
    /\ wf.advance_failed =>
          /\ wf.pc = "done" /\ wf.result = "False"
          /\ wf.outcome = "advance_failed"
          /\ ~Truthy(ProceedToNextStep(CurrentPage).result)
          /\ wf.classified = wf.step
          /\ Len(wf.handled) = wf.step
          /\ wf.advanced = wf.step - 1
    /\ (wf.pc = "done" /\ wf.outcome \in {"submitted", "steps_exhausted"})
          => wf.advanced = wf.step

\* the advance failed at a step after the first
C14_Witness ==
    /\ wf.pc = "done" /\ wf.advance_failed
    /\ wf.step >= 2

(***************************************************************************)
(* Properties of the windows (SpecJobs).                                   *)
(***************************************************************************)
\* main stands between two job cards of a page, or after the last
BetweenJobs == pc = "job_loop" /\ job_index > 0

\* C15: between two job cards the first window of window_handles is in focus
\* and every window an application flow opened is closed, whatever their
\* number.  The
\* statement as the claim makes it; it fails for a flow that opens two
\* windows, because lines 709-711 close one window, the one in focus, and
\* switch to window_handles[0].
C15_Original ==
    BetweenJobs =>
        /\ browser.windows = 1
        /\ browser.focus = 1

\* What lines 709-711 and 725-731 do give: when no flow opens more than one
\* window, one window is left between two job cards.
C15_OneWindowPerFlow ==
    (flow_windows <= 1 /\ BetweenJobs) => browser.windows = 1

\* a window of an application flow is still open when the next job card is
\* taken, with the main window in focus
C15_WindowLeftOpen ==
    /\ BetweenJobs /\ job_index < results
    /\ browser.windows > 1
    /\ browser.focus = 1 /\ ~browser.main_closed

\* C16 as stated: a Ctrl-C arriving at any point after the browser was
\* launched stops the processing, the final statistics are reported and main
\* completes with exit code 0.
C16_Original ==
    (history.interrupt # "none" /\ driver # "unbound")
        => /\ pc \in {"inner_finally", "outer_finally", "exited"}
           /\ pc # "inner_finally" => history.stats_logged = 1
           /\ pc = "exited" => exit_code = 0

\* C16: a Ctrl-C arriving inside the inner try of main (lines 553-752: from
\* the login page to the end of the page loop, the middle of a job included)
\* is caught at line 753: no further job or page is processed, the final
\* statistics are reported once, nothing propagates and main returns 0.
C16_InterruptInsideInnerTry ==
    history.interrupt \in {"inner", "job"}
        => /\ pc \in {"inner_finally", "outer_finally", "exited"}
           /\ propagating = "none"
           /\ history.ending = "interrupted"
           /\ pc # "inner_finally" => history.stats_logged = 1
           /\ pc = "exited" => exit_code = 0

\* main returned 0 after a Ctrl-C in the middle of a job, with job cards of
\* the page left unprocessed and the statistics reported
C16_Witness ==
    /\ pc = "exited" /\ exit_code = 0
    /\ history.interrupt = "job"
    /\ history.stats_logged = 1
    /\ stats.applications_attempted > 0
    /\ job_index < results

\* a Ctrl-C after the launch that main does not survive: it arrived between
\* the launch and the inner try, or while the statistics were reported
C16_Propagated ==
    /\ pc = "raised"
    /\ driver # "unbound"
    /\ history.interrupt = "startup"
    /\ propagating = "KeyboardInterrupt"

\* C17: an exception that leaves the body of the job try is caught by the
\* clause of the job loop: applications_failed grows by one, the other
\* counters stay, and the loop goes on with the next job card of the same
\* page; neither the page loop nor the run ends, nothing propagates.
C17_JobExceptionCaught ==
    [][pc = "job_raised"
          => /\ pc' = "job_loop"
             /\ job_index' = job_index + 1
             /\ page_num' = page_num /\ results' = results
             /\ propagating' = "none" /\ ret' = ret
             /\ history'.ending = history.ending
             /\ stats' = [stats EXCEPT !.applications_failed = @ + 1]]_vars

\* a job that had already been counted raised at the window commands, was
\* counted as failed by the clause, and the next job card of the page is
\* about to be taken
C17_Witness ==
    /\ pc = "job_loop" /\ 0 < job_index /\ job_index < results
    /\ propagating = "none"
    /\ stats.applications_successful + stats.applications_failed
          > stats.applications_attempted

\* the waits of the call so far all ended in a TimeoutException
AllTimeouts(log) == \A k \in 1..Len(log) : log[k] = "timeout"

\* C18: safe_find_element makes at most three waits per call.  Every wait
\* but the last ended in a timeout; the element of the first wait that finds
\* one is returned; after a timeout on the first or second attempt the loop
\* goes round again; None is returned after the third timeout (and after any
\* other exception); there is no fourth wait and nothing is raised.
C18_AtMostThreeAttempts ==
    /\ Len(find_log) <= 3
    /\ find_result \in {"none", "element", "None"}
    /\ find_pc = "loop"
          => /\ find_result = "none"
             /\ Len(find_log) = find_attempt /\ find_attempt <= 2
             /\ AllTimeouts(find_log)
    /\ find_pc = "done"
          => /\ find_log # <<>>
             /\ AllTimeouts(SubSeq(find_log, 1, Len(find_log) - 1))
             /\ find_result = "element"
                   <=> find_log[Len(find_log)] = "found"
             /\ find_result = "None"
                   <=> find_log[Len(find_log)] \in {"timeout", "unexpected"}
             /\ find_log[Len(find_log)] = "timeout" => Len(find_log) = 3
             /\ find_waited <= 3 * find_timeout + 2 * find_backoff

\* the call returned None after three timeouts, two sleeps between them
C18_Witness ==
    /\ find_pc = "done" /\ find_result = "None"
    /\ find_log = <<"timeout", "timeout", "timeout">>
    /\ find_waited = 3 * find_timeout + 2 * find_backoff

\* the call returned the element found by its third wait
C18_FoundAtThird ==
    /\ find_pc = "done" /\ find_result = "element"
    /\ find_log = <<"timeout", "timeout", "found">>

\* the button at a position of the page proceed_to_next_step was called on
ButtonAt(i) == proceed_page.buttons[i]

\* button i comes before button j in the search: its selector stands earlier
\* in the list (submit and complete, then continue and next, then the generic
\* ones), or they share the selector and i stands earlier in the document
Priority(i, j) ==
    \/ ButtonAt(i).sel < ButtonAt(j).sel
    \/ ButtonAt(i).sel = ButtonAt(j).sel /\ i < j

\* a query on a button of the same selector, at or before i, raises
CutOff(i) ==
    \E j \in 1..i : ButtonAt(j).sel = ButtonAt(i).sel /\ ButtonAt(j).stale

\* an enabled and visible match that the search can come to
Match(i) == Actionable(ButtonAt(i)) /\ ~CutOff(i)

ClickWorks(i) == SafeClickResult(ButtonAt(i).clicks)

Clicked == { proceed_clicked[k] : k \in 1..Len(proceed_clicked) }

C19_SelectorCutOff ==
    /\ proceed_pc = "done"
    /\ Len(proceed_page.buttons) = 3
    /\ ButtonAt(1) = ButtonOf(5, "stale")
    /\ ButtonAt(2) = ContinueButton
    /\ ButtonAt(3) = ButtonOf(12, "ok")
    /\ proceed_clicked = <<3>>
    /\ proceed_result = "True"

\* the inputs whose value is not the one they had when the handler was called
Written ==
    { k \in 1..Len(contact_inputs) :
        contact_inputs[k].value # contact_before[k].value }

\* the values of the profile that the pairs of contact_fields carry
ProfileValues ==
    { contact_profile[contact_fields[i].field] :
        i \in 1..Len(contact_fields) } \ { <<>> }

\* C20: handle_contact_page writes into an input only if the input was empty
\* and enabled, and what it writes is a value of the profile; an input that
\* held a value keeps it; filled_count counts the inputs written, and the
\* handler returns True exactly when it wrote into at least one.
C20_FillsOnlyEmptyFields ==
    /\ Len(contact_inputs) = Len(contact_before)
    /\ \A k \in 1..Len(contact_inputs) :
          /\ contact_before[k].value # <<>>
                => contact_inputs[k] = contact_before[k]
          /\ k \in Written
                => /\ contact_before[k].value = <<>>
                   /\ contact_before[k].enabled
                   /\ contact_inputs[k].value \in ProfileValues
    /\ filled_count = Cardinality(Written)
    /\ contact_pc = "done"
          => /\ contact_result \in {"True", "False"}
             /\ contact_result = "True" <=> Written # {}

\* the handler returned True on a page whose phone input held a value, which
\* it kept, and whose empty postal input it filled from the profile
C20_Witness ==
    /\ contact_pc = "done" /\ contact_result = "True"
    /\ Len(contact_before) = 2
    /\ contact_before[1] = InputOf(<<"p","h","o","n","e">>, "holds")
    /\ contact_before[2] = InputOf(<<"z","i","p">>, "empty")
    /\ contact_inputs[1] = contact_before[1]
    /\ contact_inputs[2].value = contact_profile["postal"]
    /\ contact_profile["phone"] # <<>>

\* the handler returned False: every input it found held a value, was
\* disabled, or raised when written to
C20_NothingFilled ==
    /\ contact_pc = "done" /\ contact_result = "False"
    /\ Len(contact_before) = 2
    /\ contact_inputs = contact_before
    /\ contact_before[1] = InputOf(<<"p","h","o","n","e">>, "holds")
    /\ contact_before[2] = InputOf(<<"z","i","p">>, "send_raises")

\* the entries of a table whose keyword the lower-cased label contains
Matches(table) ==
    { k \in 1..Len(table) : Contains(Lower(question_text), table[k].keyword) }

\* the entries that can be answered: the keyword is contained, the profile
\* has a value for it and the element to write to or to click exists
TextAnswerable ==
    { k \in Matches(text_mappings) :
        /\ question_config[text_mappings[k].field] # <<>>
        /\ question.input # "none" }

ChoiceAnswerable ==
    { k \in Matches(choice_mappings) :
        /\ question_config[choice_mappings[k].field] # <<>>
        /\ FindChoice(question, question_config[choice_mappings[k].field]) }

First(entries) == CHOOSE k \in entries : \A l \in entries : k <= l

\* C21 as stated: the question is answered at most once; the first keyword
\* of the free-text table contained in the lower-cased label determines the
\* answer, else the first contained keyword of the fixed-choice table; the
\* defaults are used only if no keyword of either table is contained.
C21_Original ==
    question_pc = "done" =>
        /\ question_answer.writes <= 1
        /\ question_answer.kind = "text"
              => question_answer.keyword
                    = text_mappings[First(Matches(text_mappings))].keyword
        /\ question_answer.kind = "choice"
              => /\ Matches(text_mappings) = {}
                 /\ question_answer.keyword
                       = choice_mappings[First(Matches(choice_mappings))].keyword
        /\ question_answer.kind \in {"default_text", "default_choice"}
              => /\ Matches(text_mappings) = {}
                 /\ Matches(choice_mappings) = {}

\* what the code does: the first entry that can be answered wins, the
\* free-text table first, and the defaults are used when no entry can be
\* answered, whether or not a keyword is contained in the label.
C21_FirstAnswerableWins ==
    question_pc = "done" =>
        /\ question_answer.writes <= 1
        /\ question_result = "True" <=> question_answer.writes = 1
        /\ TextAnswerable # {}
              => /\ question_answer.kind \in {"text", "error"}
                 /\ question_answer.keyword
                       = text_mappings[First(TextAnswerable)].keyword
        /\ (TextAnswerable = {} /\ ChoiceAnswerable # {})
              => /\ question_answer.kind \in {"choice", "error"}
                 /\ question_answer.keyword
                       = choice_mappings[First(ChoiceAnswerable)].keyword
        /\ (TextAnswerable = {} /\ ChoiceAnswerable = {})
              => question_answer.keyword = <<>>

\* the label contains 'authorized', the document has no element with the
\* text of the profile's answer, and the default experience value was typed
\* into the question's text input
C21_DefaultDespiteMatch ==
    /\ question_pc = "done" /\ question_result = "True"
    /\ Matches(choice_mappings) # {}
    /\ Matches(text_mappings) = {}
    /\ question_answer.kind = "default_text"
    /\ question_answer.value = question_config["default_exp"]

\* the label contains 'salary' and 'experience', the profile has no salary:
\* the later keyword 'experience' gave the answer
C21_LaterKeywordAnswers ==
    /\ question_pc = "done" /\ question_result = "True"
    /\ question_answer.kind = "text"
    /\ question_answer.keyword
          # text_mappings[First(Matches(text_mappings))].keyword

\* a text in which the pattern of line 598 finds no number
Unparsable(text) ==
    \A i \in 1..Len(text) : text[i] \notin Digits

\* the counts main can come to
ParsedCounts ==
    { TotalResults(text) : text \in JobCountTexts \cup {NoCountElement} }

\* without a count element, or without a number in its text, the count is 100
DefaultCountIs100 ==
    \A text \in JobCountTexts \cup {NoCountElement} :
        (text = NoCountElement \/ Unparsable(text))
            => TotalResults(text) = 100

\* C22: the page loop takes at most min(total_results div 15, 5) pages, where
\* total_results is the job count parsed from the page, 100 when the count
\* element is absent or its text has no number; pages_processed never
\* exceeds that cap, whatever the pages contain.
C22_PagesWithinCap ==
    /\ DefaultCountIs100
    /\ pc \in {"page_loop", "job_loop", "job_raised", "page_recover"}
          => total_results_int \in ParsedCounts
    /\ stats.pages_processed <= total_results_int \div 15
    /\ stats.pages_processed <= 5
    /\ page_num <= stats.pages_processed

\* the loop ended after all five pages of a search whose count element was
\* absent, with jobs applied to on the way
C22_Witness ==
    /\ pc = "inner_finally" /\ history.ending = "completed"
    /\ total_results_int = 100
    /\ stats.pages_processed = 5
    /\ stats.applications_attempted > 0

\* a count of 31 jobs gives two pages
C22_TwoPages ==
    /\ pc = "inner_finally" /\ history.ending = "completed"
    /\ total_results_int = 31
    /\ stats.pages_processed = 2

\* the path _validate_file_paths looked at: the argument of the constructor
CheckedResumePath == ConfigArgs(env)["resume_path"]

\* C23 as stated: the resume_path of every profile load_config returns is an
\* existing regular file, and it is the path that was checked for existence.
C23_Original ==
    ProfileReturned =>
        /\ config["resume_path"] \in Files
        /\ config["resume_path"] = CheckedResumePath

\* What the order of __post_init__ does give: the path that was checked is
\* an existing regular file, and the stored path is that path without the
\* characters _sanitize_inputs removes.
C23_CheckedThenSanitized ==
    ProfileReturned =>
        /\ CheckedResumePath \in Files
        /\ config["resume_path"]
              = RemoveChars(CheckedResumePath, dangerous_chars)

\* a profile was returned whose resume_path is not a file: the file that
\* exists has a parenthesis in its name
C23_MissingResume ==
    /\ ProfileReturned
    /\ config["resume_path"] \notin Files \cup Dirs
    /\ CheckedResumePath \in Files

\* a profile was returned whose resume_path is a file other than the one
\* that was checked
C23_OtherFile ==
    /\ ProfileReturned
    /\ config["resume_path"] \in Files
    /\ config["resume_path"] # CheckedResumePath

\* C24: process_application_workflow returns True only if a terminal
\* condition was seen on the page: check_already_applied held at the start
\* of a step, or check_application_submitted held right after an advance
\* that worked.  A click on a submit button without the submitted text does
\* not give True, and a handler that returned False does not end the
\* workflow: every handler called is followed by the advance, and the
\* workflow ends only for a terminal condition, a failed advance, the step
\* limit or an exception.
C24_SuccessOnlyIfObserved ==
    /\ (wf.pc = "done" /\ wf.result = "True")
          => \/ /\ wf.outcome = "already_applied"
                /\ CheckAlreadyApplied(CurrentPage)
                /\ wf.checked = wf.step + 1
             \/ /\ wf.outcome = "submitted"
                /\ CheckApplicationSubmitted(CurrentPage)
                /\ wf.advanced = wf.step /\ wf.step >= 1
                /\ wf.submitted_checks = wf.advanced
    /\ wf.pc = "done"
          => /\ wf.result \in {"True", "False"}
             /\ wf.outcome \in {"already_applied", "submitted",
                                "advance_failed", "steps_exhausted",
                                "step_error", "workflow_error"}
             /\ wf.outcome = "step_error" => ~helpers_defined
             /\ Len(wf.handled) \in {wf.step, wf.advanced}
    /\ wf.pc = "proceed" => Len(wf.handled) = wf.step + 1
    /\ wf.handlers_failed <= Len(wf.handled)

\* the workflow returned True for the submitted text after a review page
\* whose handler had returned False and whose submit button was clicked
C24_Witness ==
    /\ wf.pc = "done" /\ wf.result = "True" /\ wf.outcome = "submitted"
    /\ wf.handlers_failed > 0
    /\ wf.submit_clicks > 0
    /\ wf.step >= 2

\* a submit button was clicked, the page that followed did not have the
\* submitted text, and the workflow returned False in the end
C24_SubmitClickNotEnough ==
    /\ wf.pc = "done" /\ wf.result = "False"
    /\ wf.submit_clicks > 0
    /\ helpers_defined

\* C25: in every state of the job loop applications_successful +
\* applications_failed <= applications_attempted: a job card adds one to
\* applications_attempted and at most one to one of the two other counters.
C25_Original ==
    stats.applications_successful + stats.applications_failed
        <= stats.applications_attempted

\* what the counters do satisfy: a job card is counted successful at most
\* once, and the except clause of the job adds at most one failure to a job
\* that was counted already
C25_AtMostTwicePerJob ==
    /\ stats.applications_successful <= stats.applications_attempted
    /\ stats.applications_successful + stats.applications_failed
          <= 2 * stats.applications_attempted

\* one job card, counted successful by line 702 and failed by line 721
C25_SuccessfulAndFailed ==
    /\ pc = "job_loop"
    /\ stats.applications_attempted = 1
    /\ stats.applications_successful = 1
    /\ stats.applications_failed = 1

\* one job card, counted failed by line 705 and again by line 721
C25_FailedTwice ==
    /\ pc = "job_loop"
    /\ stats.applications_attempted = 1
    /\ stats.applications_successful = 0
    /\ stats.applications_failed = 2

\* how main left its inner try when it did so by one of its own clauses:
\* the end of the page loop, a break of the pagination or of the page
\* recovery, the clause for a critical error, the clause for Ctrl-C
InnerEndings ==
    {"completed", "pagination_ended", "recovery_failed", "critical_error",
     "interrupted"}

Terminated == pc \in {"exited", "raised"}

C26_MissingDriver ==
    /\ pc = "exited" /\ exit_code = 1
    /\ driver = "unbound"
    /\ history.quit_error = "NameError"
    /\ history.quit_calls = 0

\* setup_driver returned a session, Ctrl-C arrived before the inner try:
\* driver.quit was called once, no statistics were logged
C26_NoStatistics ==
    /\ pc = "raised"
    /\ driver = "quit"
    /\ history.quit_calls = 1
    /\ history.stats_logged = 0
    /\ ~history.loop_reached
    /\ history.interrupt = "startup"

=============================================================================
